---- MODULE Spec2Model ----
(***************************************************************************)
(* Model of the agricultural chatbot (wally205/DSC2025): the LangGraph     *)
(* turn pipeline with chat-session history, the SQLite session store, the  *)
(* FAISS vector store with directory ingestion, and knowledge-base search. *)
(*                                                                         *)
(* Conventions.  A Python str that the code inspects (query, response,     *)
(* error text) is a sequence of one-character strings, so that strip(),    *)
(* lower() and the substring test are computed as the code computes them.  *)
(* Enumerated strings (intents, node names, response types, locations)     *)
(* are TLA+ strings.  Python None is NoneVal for such strings and the      *)
(* empty sequence <<>> for optional records (<<r>> when present).  A       *)
(* confidence is an integer number of hundredths (0.5 is 50).  Times are   *)
(* seconds.                                                                *)
(***************************************************************************)
EXTENDS Integers, Sequences, FiniteSets, TLC

(***************************************************************************)
(* Bounds of the model.                                                    *)
(***************************************************************************)
\* Number of process_query_with_history calls explored.
MaxTurns == 2
\* Largest value of the wall clock (seconds since the start).
MaxClock == 1800

(***************************************************************************)
(* Program constants.                                                      *)
(***************************************************************************)
INTENT_ANALYSIS_NODE == "intent_analysis"
ACTION_EXECUTION_NODE == "action_execution"
END == "__end__"
NoneVal == "None"
\* 0.8 and 0.5, in hundredths.
HIGH_CONFIDENCE_THRESHOLD == 80
MEDIUM_CONFIDENCE_THRESHOLD == 50
\* validate_query: a stripped query shorter than this is rejected.
MIN_QUERY_LENGTH == 3
\* create_initial_state keeps conversation_history[-5:].
HISTORY_CAP == 5
\* get_context(max_messages=10) in process_query_with_history.
CONTEXT_MESSAGES == 10
\* A cached weather reading is reused when younger than 1800 seconds.
CACHE_TTL == 1800
IntentValues ==
    {"search_document", "general_question", "weather_query", "weather_agriculture", "unknown"}
WeatherIntents ==
    {"weather_query", "weather_agriculture"}

(***************************************************************************)
(* Texts.  Vietnamese texts are abbreviated and written without            *)
(* diacritics; what the code tests in them (length, substrings, case) is   *)
(* kept.                                                                   *)
(***************************************************************************)
UpperChars ==
    <<"A", "B", "C", "D", "E", "F", "G", "H", "I", "J", "K", "L", "M", "N", "O", "P", "Q", "R", "S", "T", "U", "V", "W", "X", "Y", "Z">>
LowerChars ==
    <<"a", "b", "c", "d", "e", "f", "g", "h", "i", "j", "k", "l", "m", "n", "o", "p", "q", "r", "s", "t", "u", "v", "w", "x", "y", "z">>
\* The two substrings the router looks for.
TXT_VALIDATION ==
    <<"v", "a", "l", "i", "d", "a", "t", "i", "o", "n">>
TXT_CRITICAL ==
    <<"c", "r", "i", "t", "i", "c", "a", "l">>
\* process_query's test for a weather reading in a response.
TXT_DEGREE ==
    <<"°", "C">>
\* User queries.
Q_BLANK ==
    <<" ">>
Q_SHORT ==
    <<"o", "k">>
Q_WEATHER ==
    <<"t", "h", "o", "i", " ", "t", "i", "e", "t", " ", "D", "a", " ", "L", "a", "t">>
Q_FOLLOWUP ==
    <<"v", "a", "y", " ", "c", "o", " ", "n", "e", "n", " ", "t", "u", "o", "i">>
\* str(e) of exceptions raised by the environment.
MSG_TIMEOUT ==
    <<"t", "i", "m", "e", "o", "u", "t">>
MSG_PYDANTIC ==
    <<"1", " ", "V", "a", "l", "i", "d", "a", "t", "i", "o", "n", " ", "e", "r", "r", "o", "r">>
MSG_QUOTA ==
    <<"C", "R", "I", "T", "I", "C", "A", "L", " ", "q", "u", "o", "t", "a">>
\* validate_query's error texts.
ERR_QUERY_EMPTY ==
    <<"C", "a", "u", " ", "h", "o", "i", " ", "t", "r", "o", "n", "g">>
ERR_QUERY_SHORT ==
    <<"C", "a", "u", " ", "h", "o", "i", " ", "q", "u", "a", " ", "n", "g", "a", "n">>
\* Prefixes of the f-strings that wrap str(e).
PFX_ANALYSIS ==
    <<"A", "n", "a", "l", "y", "s", "i", "s", " ", "e", "r", "r", "o", "r", ":", " ">>
PFX_INTENT_NODE ==
    <<"I", "n", "t", "e", "n", "t", " ", "a", "n", "a", "l", "y", "s", "i", "s", " ", "e", "r", "r", "o", "r", ":", " ">>
PFX_ACTION_NODE ==
    <<"A", "c", "t", "i", "o", "n", " ", "e", "x", "e", "c", "u", "t", "i", "o", "n", " ", "e", "r", "r", "o", "r", ":", " ">>
PFX_SORRY ==
    <<"X", "i", "n", " ", "l", "o", "i", ":", " ">>
\* validate_state's error texts.
ERR_MISSING_QUERY ==
    <<"M", "i", "s", "s", "i", "n", "g", " ", "r", "e", "q", "u", "i", "r", "e", "d", " ", "f", "i", "e", "l", "d", ":", " ", "u", "s", "e", "r", "_", "q", "u", "e", "r", "y">>
ERR_INVALID_CONFIDENCE ==
    <<"I", "n", "v", "a", "l", "i", "d", " ", "c", "o", "n", "f", "i", "d", "e", "n", "c", "e", " ", "v", "a", "l", "u", "e">>
ERR_INVALID_INTENT ==
    <<"I", "n", "v", "a", "l", "i", "d", " ", "i", "n", "t", "e", "n", "t">>
ERR_HAS_RESULTS ==
    <<"s", "e", "a", "r", "c", "h", "_", "r", "e", "s", "u", "l", "t", "s", " ", "m", "i", "s", "s", "i", "n", "g", " ", "'", "h", "a", "s", "_", "r", "e", "s", "u", "l", "t", "s", "'", " ", "f", "i", "e", "l", "d">>
ERR_SOURCE_FILENAME ==
    <<"s", "o", "u", "r", "c", "e", " ", "m", "i", "s", "s", "i", "n", "g", " ", "'", "f", "i", "l", "e", "n", "a", "m", "e", "'", " ", "f", "i", "e", "l", "d">>
\* Responses.
RESP_SYSTEM_ERROR ==
    <<"L", "o", "i", " ", "h", "e", " ", "t", "h", "o", "n", "g", ".">>
RESP_NODE_ERROR ==
    <<"L", "o", "i", " ", "x", "u", " ", "l", "y", ".", " ", "T", "h", "u", " ", "l", "a", "i", ".">>
RESP_PROCESSING_ERROR ==
    <<"L", "o", "i", " ", "k", "h", "i", " ", "x", "u", " ", "l", "y", ".">>
RESP_NO_RESULTS ==
    <<"K", "h", "o", "n", "g", " ", "t", "i", "m", " ", "t", "h", "a", "y", ".">>
RESP_UNKNOWN_INTENT ==
    <<"T", "o", "i", " ", "k", "h", "o", "n", "g", " ", "h", "i", "e", "u", ".">>
RESP_LOW_CONFIDENCE ==
    <<"T", "o", "i", " ", "k", "h", "o", "n", "g", " ", "c", "h", "a", "c", ".">>
RESP_ANSWER ==
    <<"T", "r", "a", " ", "l", "o", "i">>
RESP_WEATHER ==
    <<"D", "a", " ", "L", "a", "t", " ", "2", "5", "°", "C">>
RESP_NEED_LOCATION ==
    <<"C", "a", "n", " ", "d", "i", "a", " ", "d", "i", "e", "m">>
RESP_NO_WEATHER ==
    <<"K", "h", "o", "n", "g", " ", "t", "h", "e", " ", "l", "a", "y", " ", "d", "u", " ", "l", "i", "e", "u">>
RESP_WEATHER_ERROR ==
    <<"L", "o", "i", " ", "l", "a", "y", " ", "t", "h", "o", "i", " ", "t", "i", "e", "t">>
RESP_ADVICE ==
    <<"T", "u", " ", "v", "a", "n", " ", "2", "5", "°", "C">>
RESP_DEBUG_ERROR ==
    <<"D", "e", "b", "u", "g", ":", " ", "L", "o", "i", " ", "x", "u", " ", "l", "y">>
FOLLOWUP_INDICATORS ==
    { <<"v", "o", "i", " ", "t", "h", "o", "i", " ", "t", "i", "e", "t", " ", "n", "a", "y">>,
      <<"t", "r", "o", "n", "g", " ", "d", "i", "e", "u", " ", "k", "i", "e", "n", " ", "n", "a", "y">>,
      <<"t", "h", "e", "o", " ", "t", "h", "o", "n", "g", " ", "t", "i", "n", " ", "t", "r", "e", "n">>,
      <<"d", "u", "a", " ", "v", "a", "o", " ", "t", "h", "o", "i", " ", "t", "i", "e", "t">>,
      <<"n", "e", "n", " ", "l", "a", "m", " ", "g", "i">>,
      <<"c", "o", " ", "p", "h", "u", " ", "h", "o", "p">>,
      <<"t", "h", "i", " ", "s", "a", "o">>,
      <<"l", "a", "m", " ", "g", "i", " ", "t", "i", "e", "p">>,
      <<"c", "o", " ", "n", "e", "n">>,
      <<"t", "u", "o", "n", "g", " ", "t", "u">>,
      <<"n", "h", "u", " ", "v", "a", "y">> }

(***************************************************************************)
(* Python helpers.                                                         *)
(***************************************************************************)
\* dict.get(k, default)
Get(d, k, default) ==
    IF k \in DOMAIN d THEN d[k] ELSE default

\* {**a, **b}
Merge(a, b) ==
    [k \in (DOMAIN a) \cup (DOMAIN b) |-> IF k \in DOMAIN b THEN b[k] ELSE a[k]]

\* s[-n:]
LastN(s, n) ==
    IF Len(s) <= n THEN s ELSE SubSeq(s, Len(s) - n + 1, Len(s))

LowerChar(c) ==
    IF \E i \in DOMAIN UpperChars : UpperChars[i] = c
    THEN LowerChars[CHOOSE i \in DOMAIN UpperChars : UpperChars[i] = c]
    ELSE c

\* str.lower()
Lower(s) ==
    [i \in 1..Len(s) |-> LowerChar(s[i])]

\* sub in s
Contains(s, sub) ==
    \E i \in 0..(Len(s) - Len(sub)) : SubSeq(s, i + 1, i + Len(sub)) = sub

\* The whitespace characters that occur in the texts of this model.
Whitespace ==
    {" ", "\n", "\t"}

RECURSIVE LStrip(_)
LStrip(s) ==
    IF s # <<>> /\ Head(s) \in Whitespace THEN LStrip(Tail(s)) ELSE s

RECURSIVE RStrip(_)
RStrip(s) ==
    IF s # <<>> /\ s[Len(s)] \in Whitespace THEN RStrip(SubSeq(s, 1, Len(s) - 1)) ELSE s

\* str.strip()
Strip(s) ==
    RStrip(LStrip(s))

(***************************************************************************)
(* graph/state_manager.py                                                  *)
(***************************************************************************)
\* The conversation_history create_initial_state derives from a previous
\* state: the previous turn is appended, and the history cut to its last
\* five entries, only when the previous state carries a query and a response.
SeededHistory(prev) ==
    LET history == Get(prev, "conversation_history", <<>>)
    IN  IF Get(prev, "user_query", <<>>) # <<>> /\ Get(prev, "response", <<>>) # <<>>
        THEN LastN(Append(history,
                          [user_query |-> prev.user_query,
                           response |-> prev.response,
                           intent |-> Get(prev, "intent", NoneVal),
                           timestamp |-> Get(prev, "timestamp", 0)]),
                   HISTORY_CAP)
        ELSE history

\* previous_state is <<>> (None) or <<dict>>; now is the clock reading.
create_initial_state(user_query, previous_state, now) ==
    LET seeded == previous_state # <<>> /\ DOMAIN previous_state[1] # {}
    IN  [user_query |-> Strip(user_query),
         conversation_history |->
             IF seeded THEN SeededHistory(previous_state[1]) ELSE <<>>,
         last_weather_data |->
             IF seeded THEN Get(previous_state[1], "last_weather_data", <<>>) ELSE <<>>,
         last_location |->
             IF seeded THEN Get(previous_state[1], "last_location", NoneVal) ELSE NoneVal,
         intent |-> NoneVal,
         confidence |-> 0,
         search_results |-> <<>>,
         sources |-> <<>>,
         response |-> <<>>,
         response_type |-> "",
         timestamp |-> now,
         execution_path |-> <<>>,
         errors |-> <<>>,
         action_completed |-> FALSE]

\* One error per source that has no filename.
SourceErrors(sources) ==
    [i \in 1..Len(SelectSeq(sources, LAMBDA s : "filename" \notin DOMAIN s))
        |-> ERR_SOURCE_FILENAME]

\* The timestamp is an ISO string of the clock and is never empty, so the
\* required-field check can only report user_query.
validate_state(state) ==
    (IF Get(state, "user_query", <<>>) = <<>> THEN <<ERR_MISSING_QUERY>> ELSE <<>>)
    \o (IF Get(state, "confidence", 0) < 0 \/ Get(state, "confidence", 0) > 100
        THEN <<ERR_INVALID_CONFIDENCE>> ELSE <<>>)
    \o (IF Get(state, "intent", NoneVal) # NoneVal
           /\ Get(state, "intent", NoneVal) \notin IntentValues
        THEN <<ERR_INVALID_INTENT>> ELSE <<>>)
    \o (IF Get(state, "search_results", <<>>) # <<>>
           /\ "has_results" \notin DOMAIN state.search_results[1]
        THEN <<ERR_HAS_RESULTS>> ELSE <<>>)
    \o SourceErrors(Get(state, "sources", <<>>))

\* update_state without the step added to the execution path.
update_state_without_step(current_state, updates, step_name) ==
    LET new_state == Merge(current_state, updates)
    IN  [new_state EXCEPT !.errors = @ \o validate_state(new_state)]

update_state(current_state, updates, step_name) ==
    LET merged == Merge(current_state, updates)
        new_state == [merged EXCEPT !.execution_path = Append(@, step_name)]
        validation_errors == validate_state(new_state)
    IN  [new_state EXCEPT !.errors = @ \o validation_errors]

(***************************************************************************)
(* tools/search_tools.py: validate_query                                   *)
(***************************************************************************)
validate_query(query) ==
    LET cleaned_query == Strip(query)
    IN  IF cleaned_query = <<>>
        THEN [is_valid |-> FALSE, errors |-> <<ERR_QUERY_EMPTY>>]
        ELSE IF Len(cleaned_query) < MIN_QUERY_LENGTH
        THEN [is_valid |-> FALSE, errors |-> <<ERR_QUERY_SHORT>>]
        ELSE [is_valid |-> TRUE, errors |-> <<>>]

(***************************************************************************)
(* agents/intent_analyzer.py                                               *)
(***************************************************************************)
create_intent_result(intent, confidence, errors) ==
    [intent |-> intent, confidence |-> confidence, errors |-> errors]

\* What _extract_intent_patterns can return for a valid query.
PatternResults ==
    {create_intent_result("weather_query", 90, <<>>),
     create_intent_result("weather_agriculture", 90, <<>>),
     create_intent_result("search_document", 30, <<>>),
     create_intent_result("general_question", 60, <<>>),
     create_intent_result("unknown", 10, <<>>)}

\* What the LLM can answer: <<>> when the call fails or its answer does not
\* parse, else a valid intent with whatever number it gave as confidence.
LlmAnswers ==
    {<<>>,
     <<create_intent_result("general_question", 150, <<>>)>>,
     <<create_intent_result("search_document", 0, <<>>)>>}

\* str(e) of an exception raised inside a try block: <<>> when none is.
Exceptions ==
    {<<>>, <<MSG_TIMEOUT>>, <<MSG_PYDANTIC>>, <<MSG_QUOTA>>}

\* _analyze_with_llm falls back to the pattern result.
analyze_with_llm(pattern_result, llm_answer) ==
    IF llm_answer # <<>> THEN llm_answer[1] ELSE pattern_result

\* analyze_intent that adopts the LLM's result whenever it has one.
analyze_intent_llm_first(user_query, pattern_result, llm_answer, exc) ==
    LET validation == validate_query(user_query)
        llm_result == analyze_with_llm(pattern_result, llm_answer)
    IN  IF ~validation.is_valid
        THEN create_intent_result("unknown", 0, validation.errors)
        ELSE IF exc # <<>>
        THEN create_intent_result("unknown", 0, <<PFX_ANALYSIS \o exc[1]>>)
        ELSE IF pattern_result.confidence < MEDIUM_CONFIDENCE_THRESHOLD
        THEN llm_result
        ELSE pattern_result

analyze_intent(user_query, pattern_result, llm_answer, exc) ==
    LET validation == validate_query(user_query)
        llm_result == analyze_with_llm(pattern_result, llm_answer)
    IN  IF ~validation.is_valid
        THEN create_intent_result("unknown", 0, validation.errors)
        ELSE IF exc # <<>>
        THEN create_intent_result("unknown", 0, <<PFX_ANALYSIS \o exc[1]>>)
        ELSE IF pattern_result.confidence < MEDIUM_CONFIDENCE_THRESHOLD
                /\ llm_result.confidence > pattern_result.confidence
        THEN llm_result
        ELSE pattern_result

(***************************************************************************)
(* graph/graph_builder.py: the two nodes' state updates and the router     *)
(***************************************************************************)
\* The try branch of _intent_analysis_node.
intent_analysis_updates(state, analysis_result) ==
    LET updates == [intent |-> analysis_result.intent,
                    confidence |-> analysis_result.confidence]
    IN  IF analysis_result.errors # <<>>
        THEN Merge(updates, [errors |-> Get(state, "errors", <<>>) \o analysis_result.errors])
        ELSE updates

\* node_exc is <<>>, or <<str(e)>> when the try block raised.
intent_analysis_node(state, analysis_result, node_exc) ==
    IF node_exc = <<>>
    THEN update_state(state, intent_analysis_updates(state, analysis_result),
                      INTENT_ANALYSIS_NODE)
    ELSE update_state(state,
                      [intent |-> "unknown",
                       confidence |-> 0,
                       errors |-> Get(state, "errors", <<>>)
                                    \o <<PFX_INTENT_NODE \o node_exc[1]>>],
                      INTENT_ANALYSIS_NODE)

\* The router with the case of the error text left as it is.
IsCriticalErrorCaseSensitive(error) ==
    Contains(error, TXT_VALIDATION) \/ Contains(error, TXT_CRITICAL)

IsCriticalError(error) ==
    Contains(Lower(error), TXT_VALIDATION) \/ Contains(Lower(error), TXT_CRITICAL)

route_after_intent_analysis(state) ==
    LET errors == Get(state, "errors", <<>>)
        intent == Get(state, "intent", NoneVal)
        confidence == Get(state, "confidence", 0)
        critical_errors == SelectSeq(errors, IsCriticalError)
    IN  IF critical_errors # <<>>
        THEN END
        ELSE IF intent = NoneVal \/ confidence = 0
        THEN END
        ELSE ACTION_EXECUTION_NODE

(***************************************************************************)
(* Knowledge-base search: ingest/vector_store.py (the two searches),       *)
(* tools/domain_filter.py, tools/document_retriever.py and                 *)
(* tools/search_tools.py.                                                  *)
(*                                                                         *)
(* A chunk of the index is a record [filename, page_content, score,        *)
(* relevance]: score is the similarity FAISS reports for it on the query   *)
(* at hand and relevance what calculate_document_relevance gives it, both  *)
(* in hundredths.  An index is <<>> (no index: None) or <<chunks>>; a      *)
(* retriever is the index it searches, whether hybrid search is on, and    *)
(* the documents its BM25 index was built on.  A                           *)
(* combined score is in ten-thousandths (70 * score + 30 * relevance).     *)
(***************************************************************************)
\* min_relevance=0.1 of both filter_documents_by_domain calls.
MIN_RELEVANCE == 10
\* Weights of the vector score and the domain score, in hundredths.
VECTOR_WEIGHT == 70
DOMAIN_WEIGHT == 30

\* s[:n]
FirstN(s, n) ==
    SubSeq(s, 1, IF Len(s) < n THEN Len(s) ELSE n)

\* VectorStore.similarity_search: no index, or a failure inside FAISS that
\* the method swallows, gives [].
similarity_search(store, k, faiss_fails) ==
    IF store = <<>> \/ faiss_fails THEN <<>> ELSE FirstN(store[1], k)

\* VectorStore.similarity_search_with_scores: (document, score) pairs.
similarity_search_with_scores(store, k, faiss_fails) ==
    LET found == similarity_search(store, k, faiss_fails)
    IN  [i \in 1..Len(found) |-> <<found[i], found[i].score>>]

\* list.sort(key=lambda x: x[1], reverse=True): stable, descending.
RECURSIVE SortByScoreDesc(_)
SortByScoreDesc(pairs) ==
    IF pairs = <<>> THEN <<>>
    ELSE LET best == CHOOSE i \in 1..Len(pairs) :
                        /\ \A j \in 1..Len(pairs) : pairs[j][2] <= pairs[i][2]
                        /\ \A j \in 1..(i - 1) : pairs[j][2] < pairs[i][2]
         IN  <<pairs[best]>>
             \o SortByScoreDesc(SubSeq(pairs, 1, best - 1)
                                \o SubSeq(pairs, best + 1, Len(pairs)))

\* AgricultureDomainFilter.filter_documents_by_domain; names_crop says
\* whether extract_crop_entities finds a crop in the query.
filter_documents_by_domain(documents, names_crop, min_relevance) ==
    IF ~names_crop
    THEN [i \in 1..Len(documents) |-> <<documents[i], 100>>]
    ELSE LET relevant == SelectSeq(documents, LAMBDA d : d.relevance >= min_relevance)
         IN  SortByScoreDesc([i \in 1..Len(relevant) |-> <<relevant[i], relevant[i].relevance>>])

\* What the environment decides during one retriever call: whether FAISS
\* raises inside the vector store (faiss_fails, and fallback_fails for the
\* except branch's second search), whether the code between the searches
\* raises (raises), and what hybrid_search returns (hybrid).
SearchEnvs ==
    [faiss_fails : BOOLEAN, fallback_fails : BOOLEAN, raises : BOOLEAN,
     hybrid_empty : BOOLEAN]

\* [(doc, score) for doc in docs]
WithScores(docs) ==
    [i \in 1..Len(docs) |-> <<docs[i], docs[i].score>>]

\* The documents that are not among those found.
RECURSIVE NotAmong(_, _)
NotAmong(docs, found) ==
    IF docs = <<>> THEN <<>>
    ELSE (IF \E i \in 1..Len(found) : found[i] = Head(docs)
          THEN <<>> ELSE <<Head(docs)>>)
         \o NotAmong(Tail(docs), found)

\* hybrid_search's fusion: every document of either search once, cut to k.
Fused(dense_docs, bm25_docs, k) ==
    FirstN(WithScores(dense_docs \o NotAmong(bm25_docs, dense_docs)), k)

\* HybridRetriever.hybrid_search: what the dense search finds now and what
\* BM25 finds among the documents the retriever was built on; or nothing,
\* when no fused score is above zero.
hybrid_search(retriever, k, env) ==
    IF env.hybrid_empty THEN <<>>
    ELSE Fused(similarity_search(retriever.store, k * 2, env.faiss_fails),
               retriever.documents, k)

\* DocumentRetriever._init_hybrid_retriever: hybrid search is switched on
\* when the index loaded at construction holds chunks.
init_hybrid_retriever(store, init_fails) ==
    ~init_fails /\ store # <<>> /\ similarity_search(store, 1000, FALSE) # <<>>

\* DocumentRetriever.__init__ over a vector store: the BM25 index is built
\* on the chunks found at that moment.
DocumentRetriever(store, init_fails) ==
    [store |-> store,
     use_hybrid |-> init_hybrid_retriever(store, init_fails),
     documents |-> IF init_hybrid_retriever(store, init_fails)
                   THEN similarity_search(store, 1000, FALSE) ELSE <<>>]

\* DocumentRetriever.search_documents
search_documents(retriever, query, limit, env) ==
    LET hybrid_results == hybrid_search(retriever, limit * 3, env)
        dense_results == similarity_search(retriever.store, limit * 3, env.faiss_fails)
        initial_results ==
            IF retriever.use_hybrid /\ hybrid_results # <<>>
            THEN [i \in 1..Len(hybrid_results) |-> hybrid_results[i][1]]
            ELSE dense_results
        filtered_results ==
            filter_documents_by_domain(initial_results, query.names_crop, MIN_RELEVANCE)
        final_pairs == FirstN(filtered_results, limit)
    IN  IF env.raises
        THEN similarity_search(retriever.store, limit, env.fallback_fails)
        ELSE IF initial_results = <<>> THEN <<>>
        ELSE [i \in 1..Len(final_pairs) |-> final_pairs[i][1]]

\* The vector score of the first initial result with the same content.
OriginalScore(doc, initial_results) ==
    IF \E i \in 1..Len(initial_results) :
           initial_results[i][1].page_content = doc.page_content
    THEN initial_results[CHOOSE i \in 1..Len(initial_results) :
            /\ initial_results[i][1].page_content = doc.page_content
            /\ \A j \in 1..(i - 1) :
                   initial_results[j][1].page_content # doc.page_content][2]
    ELSE 0

\* DocumentRetriever.search_with_scores.  The except branch returns the
\* vector store's own pairs, whose scores are brought to the same unit.
search_with_scores(retriever, query, limit, env) ==
    LET hybrid_results == hybrid_search(retriever, limit * 3, env)
        dense_results ==
            similarity_search_with_scores(retriever.store, limit * 3, env.faiss_fails)
        initial_results ==
            IF retriever.use_hybrid /\ hybrid_results # <<>>
            THEN hybrid_results ELSE dense_results
        documents == [i \in 1..Len(initial_results) |-> initial_results[i][1]]
        filtered_results ==
            FirstN(filter_documents_by_domain(documents, query.names_crop, MIN_RELEVANCE),
                   limit)
        fallback ==
            similarity_search_with_scores(retriever.store, limit, env.fallback_fails)
    IN  IF env.raises
        THEN [i \in 1..Len(fallback) |-> <<fallback[i][1], 100 * fallback[i][2]>>]
        ELSE IF initial_results = <<>> THEN <<>>
        ELSE [i \in 1..Len(filtered_results) |->
                <<filtered_results[i][1],
                  VECTOR_WEIGHT * OriginalScore(filtered_results[i][1], initial_results)
                    + DOMAIN_WEIGHT * filtered_results[i][2]>>]

\* One block of the context string: a header naming the source, then the
\* stripped content and a newline.
ContextPart(doc) ==
    <<"[">> \o Get(doc, "filename", <<"U", "n", "k", "n", "o", "w", "n">>) \o <<"]", "\n">>
        \o Strip(doc.page_content) \o <<"\n">>

RECURSIVE JoinParts(_)
JoinParts(parts) ==
    IF parts = <<>> THEN <<>>
    ELSE IF Len(parts) = 1 THEN parts[1]
    ELSE parts[1] \o <<"\n">> \o JoinParts(Tail(parts))

\* get_relevant_context: the results whose score reaches min_score.
AtLeast(results_with_scores, min_score) ==
    SelectSeq(results_with_scores, LAMBDA p : p[2] >= 100 * min_score)

\* get_relevant_context: None when nothing is left, else the joined parts.
ContextOf(filtered_results) ==
    IF filtered_results = <<>> THEN <<>>
    ELSE JoinParts([i \in 1..Len(filtered_results) |->
                        ContextPart(filtered_results[i][1])])

\* get_relevant_context answering with a notice where nothing passed.
get_relevant_context_with_notice(retriever, query, limit, min_score, env) ==
    LET context == ContextOf(AtLeast(search_with_scores(retriever, query, limit, env),
                                     min_score))
    IN  IF context = <<>> THEN <<"[", "]", "\n">> ELSE context

\* DocumentRetriever.get_relevant_context; min_score is in hundredths.
get_relevant_context(retriever, query, limit, min_score, env) ==
    ContextOf(AtLeast(search_with_scores(retriever, query, limit, env), min_score))

\* The number of results whose filename is the given one.
ChunkCount(results, filename) ==
    Len(SelectSeq(results, LAMBDA d : Get(d, "filename", <<>>) = filename))

\* DocumentRetriever.get_document_sources: one entry per distinct filename,
\* in the order of first appearance.
RECURSIVE SourcesOf(_, _, _)
SourcesOf(results, i, seen) ==
    IF i > Len(results) THEN <<>>
    ELSE LET filename == Get(results[i], "filename", <<"U", "n", "k", "n", "o", "w", "n">>)
         IN  IF filename \in seen
             THEN SourcesOf(results, i + 1, seen)
             ELSE <<[filename |-> filename,
                     chunk_count |-> ChunkCount(results, filename)]>>
                  \o SourcesOf(results, i + 1, seen \cup {filename})

get_document_sources(retriever, query, limit, env) ==
    SourcesOf(search_documents(retriever, query, limit, env), 1, {})

RECURSIVE SumScores(_)
SumScores(pairs) ==
    IF pairs = <<>> THEN 0 ELSE pairs[1][2] + SumScores(Tail(pairs))

MaxScore(pairs) ==
    pairs[CHOOSE i \in 1..Len(pairs) : \A j \in 1..Len(pairs) : pairs[j][2] <= pairs[i][2]][2]

\* bool(context and context.strip())
HasResults(context) ==
    context # <<>> /\ Strip(context) # <<>>

\* search_knowledge_base: the dictionary built from what the three
\* retriever calls returned.  The average is the floor of the quotient, in
\* ten-thousandths.
search_result(context, sources, results_with_scores) ==
    [context |-> context,
     sources |-> sources,
     results_count |-> Len(results_with_scores),
     avg_confidence |->
         IF results_with_scores # <<>>
         THEN SumScores(results_with_scores) \div Len(results_with_scores)
         ELSE 0,
     max_confidence |->
         IF results_with_scores # <<>> THEN MaxScore(results_with_scores) ELSE 0,
     has_results |-> HasResults(context)]

\* SearchTools.search_knowledge_base.  envs holds the environment of the
\* three retriever calls, in the order the code makes them; kb_raises says
\* whether the try block itself raises.
search_knowledge_base(retriever, query, limit, min_score, envs, kb_raises) ==
    IF kb_raises
    THEN [context |-> <<>>, sources |-> <<>>, results_count |-> 0,
          avg_confidence |-> 0, max_confidence |-> 0, has_results |-> FALSE,
          error |-> MSG_TIMEOUT]
    ELSE search_result(get_relevant_context(retriever, query, limit, min_score, envs[1]),
                       get_document_sources(retriever, query, limit, envs[2]),
                       search_with_scores(retriever, query, limit, envs[3]))

(***************************************************************************)
(* agents/action_executor.py                                               *)
(***************************************************************************)
\* Below this confidence _handle_unknown_intent answers "unknown_intent".
LOW_ANSWER_CONFIDENCE == 30
\* _handle_general_question uses the context above this max_confidence
\* (0.6, in ten-thousandths).
GENERAL_CONTEXT_CONFIDENCE == 6000

Locations ==
    {"Da Lat", "Ho Chi Minh City"}

\* WeatherCondition: a live reading or the advisor's demo record.
Readings ==
    [location_name : Locations, origin : {"api", "demo"}]

is_weather_followup_question(query, conversation_history) ==
    IF conversation_history = <<>> THEN FALSE
    ELSE LET last_turn == conversation_history[Len(conversation_history)]
             last_intent == Get(last_turn, "intent", NoneVal)
         IN  IF last_intent \notin WeatherIntents THEN FALSE
             ELSE \E indicator \in FOLLOWUP_INDICATORS : Contains(Lower(query), indicator)

create_error_response(state, error) ==
    Merge(state, [response |-> RESP_PROCESSING_ERROR,
                  response_type |-> "error",
                  search_results |-> <<>>,
                  sources |-> <<>>,
                  error |-> error,
                  action_completed |-> FALSE])

\* The knowledge base as a handler meets it: the retriever, whether the
\* query names a crop, the environment of the three retriever calls and
\* whether search_knowledge_base's try block raises.
Search(kb, limit, min_score) ==
    search_knowledge_base(kb.retriever, [names_crop |-> kb.names_crop],
                          limit, min_score, kb.envs, kb.raises)

\* _handle_document_search: the answer is written by the LLM, or by
\* format_response when the LLM fails; both are RESP_ANSWER here.
document_search_answer(state, found) ==
    Merge(state, [response |-> IF found.has_results
                               THEN RESP_ANSWER ELSE RESP_NO_RESULTS,
                  response_type |-> "document_search",
                  search_results |-> <<found>>,
                  sources |-> found.sources,
                  context_used |-> found.context])

handle_document_search(state, kb) ==
    document_search_answer(
        state,
        Search(kb, 15,
               IF Get(state, "confidence", 0) >= HIGH_CONFIDENCE_THRESHOLD
               THEN 30 ELSE 20))

\* _handle_general_question: _generate_general_response gives the
\* no-results text when the LLM fails.
general_question_answer(state, found, llm_ok) ==
    LET with_context == found.has_results
                        /\ found.max_confidence > GENERAL_CONTEXT_CONFIDENCE
    IN  Merge(state, [response |-> IF with_context \/ llm_ok
                                   THEN RESP_ANSWER ELSE RESP_NO_RESULTS,
                      response_type |-> IF with_context THEN "general_with_context"
                                        ELSE "general_without_context",
                      search_results |-> <<found>>,
                      sources |-> Get(found, "sources", <<>>),
                      context_used |-> Get(found, "context", <<>>)])

handle_general_question(state, kb, llm_ok) ==
    general_question_answer(state, Search(kb, 3, 50), llm_ok)

handle_unknown_intent(state) ==
    Merge(state, [response |-> IF Get(state, "confidence", 0) < LOW_ANSWER_CONFIDENCE
                               THEN RESP_UNKNOWN_INTENT ELSE RESP_LOW_CONFIDENCE,
                  response_type |-> "unknown",
                  search_results |-> <<>>,
                  sources |-> <<>>])

\* The source entry both weather handlers build; it has no filename.
WeatherSource(weather) ==
    [type |-> "weather_api", location |-> weather.location_name]

\* What both weather handlers do before they answer: whether the turn is a
\* follow-up, which location they use and whether it was extracted, whether
\* the cached reading is used, and the reading.  env.location is what
\* _extract_location_from_query would return and env.weather what
\* get_current_weather would.
LookupWith(state, env, now, is_followup) ==
    LET last_weather_data == Get(state, "last_weather_data", <<>>)
        last_location == Get(state, "last_location", NoneVal)
        use_last == is_followup /\ last_location # NoneVal
        location == IF use_last THEN last_location ELSE env.location
        cached == /\ is_followup
                  /\ last_weather_data # <<>>
                  /\ Get(last_weather_data[1], "location", NoneVal) = location
                  /\ now - Get(last_weather_data[1], "timestamp", 0) < CACHE_TTL
    IN  [is_followup |-> is_followup,
         location |-> location,
         extracted |-> ~use_last,
         cached |-> location # NoneVal /\ cached,
         key_error |-> location # NoneVal /\ cached
                       /\ "weather" \notin DOMAIN last_weather_data[1],
         fetched |-> location # NoneVal /\ ~cached,
         weather |-> IF location = NoneVal THEN <<>>
                     ELSE IF ~cached THEN env.weather
                     ELSE IF "weather" \in DOMAIN last_weather_data[1]
                     THEN <<last_weather_data[1].weather>>
                     ELSE <<>>]

WeatherLookup(state, env, now) ==
    LookupWith(state, env, now,
               is_weather_followup_question(Get(state, "user_query", <<>>),
                                            Get(state, "conversation_history", <<>>)))

\* _handle_weather_query after the lookup: the updated state.
weather_query_answer(state, env, now, look) ==
        IF look.location = NoneVal
        THEN Merge(state, [response |-> RESP_NEED_LOCATION,
                           response_type |-> "weather_query",
                           search_results |-> <<>>])
        ELSE IF look.key_error \/ env.raises
        THEN Merge(state, [response |-> RESP_WEATHER_ERROR,
                           response_type |-> "weather_error",
                           search_results |-> <<>>])
        ELSE IF look.weather = <<>>
        THEN Merge(state, [response |-> RESP_NO_WEATHER,
                           response_type |-> "weather_query",
                           search_results |-> <<>>])
        ELSE Merge(state, [response |-> RESP_WEATHER,
                           response_type |-> "weather_query",
                           last_weather_data |-> <<[weather |-> look.weather[1],
                                                    location |-> look.location,
                                                    timestamp |-> now]>>,
                           last_location |-> look.location,
                           search_results |->
                               <<[has_results |-> TRUE,
                                  context |-> RESP_WEATHER,
                                  sources |-> <<WeatherSource(look.weather[1])>>,
                                  max_confidence |-> 9500]>>])

handle_weather_query(state, env, now) ==
    weather_query_answer(state, env, now, WeatherLookup(state, env, now))

\* _handle_weather_agriculture: a failed fetch is replaced by the demo
\* record; generate_agriculture_advice then fetches the weather of the
\* location once more, whatever reading the handler holds.
weather_agriculture_answer(state, env, now, look, weather, detailed_context) ==
        IF look.location = NoneVal
        THEN Merge(state, [response |-> RESP_NEED_LOCATION,
                           response_type |-> "weather_agriculture",
                           search_results |-> <<>>])
        ELSE IF look.key_error \/ env.raises
        THEN Merge(state, [response |-> RESP_DEBUG_ERROR,
                           response_type |-> "weather_agriculture_error",
                           search_results |-> <<>>])
        ELSE IF weather = <<>>
        THEN Merge(state, [response |-> RESP_NO_WEATHER,
                           response_type |-> "weather_agriculture",
                           search_results |-> <<>>])
        ELSE Merge(state, [response |-> RESP_ADVICE,
                           response_type |-> "weather_agriculture_detailed",
                           last_weather_data |-> <<[weather |-> weather[1],
                                                    location |-> look.location,
                                                    timestamp |-> now]>>,
                           last_location |-> look.location,
                           search_results |->
                               <<[has_results |-> TRUE,
                                  context |-> RESP_ADVICE,
                                  sources |-> <<WeatherSource(weather[1])>>
                                              \o detailed_context.sources,
                                  max_confidence |-> 9500]>>,
                           sources |-> <<WeatherSource(weather[1])>>
                                       \o detailed_context.sources])

\* The reading the advice is built on: the demo record when the fetch
\* gave nothing.
ReadingOrDemo(look) ==
    IF look.fetched /\ look.weather = <<>>
    THEN <<[location_name |-> look.location, origin |-> "demo"]>>
    ELSE look.weather

weather_agriculture_with(state, env, now, look) ==
    weather_agriculture_answer(state, env, now, look, ReadingOrDemo(look),
                               Search(env.kb, 10, 20))

handle_weather_agriculture(state, env, now) ==
    weather_agriculture_with(state, env, now, WeatherLookup(state, env, now))

\* Calls of get_current_weather made by the handler of this intent: the
\* handler's own fetch, and the one inside generate_agriculture_advice,
\* which is reached unless the handler has left before it.
FetchesOf(intent, look) ==
    IF intent \notin WeatherIntents THEN 0
    ELSE (IF look.fetched THEN 1 ELSE 0)
         + (IF intent = "weather_agriculture" /\ look.location # NoneVal
               /\ ~look.key_error
            THEN 1 ELSE 0)

WeatherFetches(state, env, now) ==
    FetchesOf(Get(state, "intent", NoneVal), WeatherLookup(state, env, now))

\* Calls of _extract_location_from_query made by the handler.
LocationExtractions(state, env, now) ==
    IF Get(state, "intent", NoneVal) \in WeatherIntents
       /\ WeatherLookup(state, env, now).extracted
    THEN 1 ELSE 0

\* execute_action: the handler of the intent, then the execution metadata;
\* an exception that leaves a handler gives _create_error_response.  The
\* weather handlers catch their own exceptions.
execute_action(state, env, now) ==
    LET intent == Get(state, "intent", NoneVal)
        done == [action_completed |-> TRUE, execution_timestamp |-> now]
    IN  IF intent = "weather_query"
        THEN Merge(handle_weather_query(state, env, now), done)
        ELSE IF intent = "weather_agriculture"
        THEN Merge(handle_weather_agriculture(state, env, now), done)
        ELSE IF env.raises
        THEN create_error_response(state, MSG_TIMEOUT)
        ELSE IF intent = "search_document"
        THEN Merge(handle_document_search(state, env.kb), done)
        ELSE IF intent = "general_question"
        THEN Merge(handle_general_question(state, env.kb, env.llm_ok), done)
        ELSE Merge(handle_unknown_intent(state), done)

\* _action_execution_node; node_exc is <<>>, or <<str(e)>> when the try
\* block raised.
action_execution_node(state, env, node_exc, now) ==
    IF node_exc = <<>>
    THEN update_state(state, execute_action(state, env, now), ACTION_EXECUTION_NODE)
    ELSE update_state(state,
                      [response |-> RESP_NODE_ERROR,
                       response_type |-> "error",
                       action_completed |-> FALSE,
                       errors |-> Get(state, "errors", <<>>)
                                    \o <<PFX_ACTION_NODE \o node_exc[1]>>],
                      ACTION_EXECUTION_NODE)

(***************************************************************************)
(* chat/history_manager.py                                                 *)
(*                                                                         *)
(* A message is [content, is_user, timestamp, metadata] and a session      *)
(* [session_id, title, created_at, updated_at, messages]; session ids are  *)
(* positive numbers and NoSession stands for None.  The database maps the  *)
(* ids of the stored sessions to their rows.  Times are clock readings,    *)
(* whose order is the order of the ISO strings the code stores.            *)
(***************************************************************************)
NoSession == 0

\* The title a session is given at construction: "Chat <date>".
TITLE_DEFAULT ==
    <<"C", "h", "a", "t", " ", "0", "1", ":", "0", "0">>
TITLE_PREFIX ==
    <<"C", "h", "a", "t", " ">>
\* Titles taken from the first user message are cut to this length.
TITLE_LENGTH == 50

\* str.startswith
StartsWith(s, prefix) ==
    Len(s) >= Len(prefix) /\ SubSeq(s, 1, Len(prefix)) = prefix

\* json.dumps of one character of a str (ensure_ascii is on).
json_escape(c) ==
    IF c = "\"" THEN <<"\\", "\"">>
    ELSE IF c = "\\" THEN <<"\\", "\\">>
    ELSE IF c = "\n" THEN <<"\\", "n">>
    ELSE IF c = "\t" THEN <<"\\", "t">>
    ELSE IF c = "°" THEN <<"\\", "u", "0", "0", "b", "0">>
    ELSE <<c>>

RECURSIVE json_escape_all(_)
json_escape_all(s) ==
    IF s = <<>> THEN <<>> ELSE json_escape(Head(s)) \o json_escape_all(Tail(s))

\* json.dumps of a str: the JSON string literal.
json_dumps_str(s) ==
    <<"\"">> \o json_escape_all(s) \o <<"\"">>

\* The text between the quotes of a JSON string literal, decoded.
RECURSIVE json_unescape_all(_)
json_unescape_all(t) ==
    IF t = <<>> THEN <<>>
    ELSE IF Head(t) # "\\" THEN <<Head(t)>> \o json_unescape_all(Tail(t))
    ELSE IF t[2] = "n" THEN <<"\n">> \o json_unescape_all(SubSeq(t, 3, Len(t)))
    ELSE IF t[2] = "t" THEN <<"\t">> \o json_unescape_all(SubSeq(t, 3, Len(t)))
    ELSE IF t[2] = "u"
    THEN (IF SubSeq(t, 3, 6) = <<"0", "0", "b", "0">> THEN <<"°">> ELSE <<"?">>)
         \o json_unescape_all(SubSeq(t, 7, Len(t)))
    ELSE <<t[2]>> \o json_unescape_all(SubSeq(t, 3, Len(t)))

\* json.loads of a JSON string literal.
json_loads_str(t) ==
    json_unescape_all(SubSeq(t, 2, Len(t) - 1))

\* ChatMessage.to_dict followed by json.dumps: the text of the content is
\* encoded; booleans, numbers and the metadata object keep their structure.
message_dumps(message) ==
    [message EXCEPT !.content = json_dumps_str(@)]

\* from_dict on the stored text as it is, not decoded.
message_loads_raw(data) ==
    [content |-> SubSeq(data.content, 2, Len(data.content) - 1),
     is_user |-> data.is_user,
     timestamp |-> data.timestamp,
     metadata |-> Get(data, "metadata", <<>>)]

\* json.loads followed by ChatMessage.from_dict
message_loads(data) ==
    [content |-> json_loads_str(data.content),
     is_user |-> data.is_user,
     timestamp |-> data.timestamp,
     metadata |-> Get(data, "metadata", <<>>)]

\* ChatMessage(content, is_user, metadata)
ChatMessage(content, is_user, metadata, now) ==
    [content |-> content, is_user |-> is_user, timestamp |-> now, metadata |-> metadata]

\* ChatSession(session_id, title)
ChatSession(session_id, title, now) ==
    [session_id |-> session_id,
     title |-> IF title = <<>> THEN TITLE_DEFAULT ELSE title,
     created_at |-> now,
     updated_at |-> now,
     messages |-> <<>>]

\* ChatSession.add_message: the session after the call.
add_message(session, content, is_user, metadata, now) ==
    LET messages == Append(session.messages, ChatMessage(content, is_user, metadata, now))
    IN  [session EXCEPT
            !.messages = messages,
            !.updated_at = now,
            !.title = IF is_user /\ Len(messages) = 1 /\ StartsWith(@, TITLE_PREFIX)
                      THEN (IF Len(content) > TITLE_LENGTH
                            THEN FirstN(content, TITLE_LENGTH) \o <<".", ".", ".">>
                            ELSE content)
                      ELSE @]

\* ChatSession.get_context
get_context(session, max_messages) ==
    LET recent_messages == IF max_messages > 0
                           THEN LastN(session.messages, max_messages)
                           ELSE session.messages
    IN  [i \in 1..Len(recent_messages) |->
            [role |-> IF recent_messages[i].is_user THEN "user" ELSE "assistant",
             content |-> recent_messages[i].content]]

\* The row save_session writes.
SessionRow(session) ==
    [session_id |-> session.session_id,
     title |-> session.title,
     created_at |-> session.created_at,
     updated_at |-> session.updated_at,
     messages_json |-> [i \in 1..Len(session.messages) |->
                            message_dumps(session.messages[i])]]

\* ChatHistoryManager.save_session.  updated_at is set before the database
\* is opened; when the write fails (write_ok is false) the exception is
\* raised again and the database is as it was.
save_session(database, session, now, write_ok) ==
    LET stamped == [session EXCEPT !.updated_at = now]
    IN  [session |-> stamped,
         database |-> IF write_ok
                      THEN (stamped.session_id :> SessionRow(stamped)) @@ database
                      ELSE database,
         raised |-> ~write_ok]

\* ChatHistoryManager.load_session: <<>> (None) when there is no such row or
\* the read fails.
load_session(database, session_id, read_ok) ==
    IF ~read_ok \/ session_id \notin DOMAIN database THEN <<>>
    ELSE LET row == database[session_id]
         IN  <<[session_id |-> row.session_id,
                title |-> row.title,
                created_at |-> row.created_at,
                updated_at |-> row.updated_at,
                messages |-> [i \in 1..Len(row.messages_json) |->
                                 message_loads(row.messages_json[i])]]>>

\* ChatHistoryManager.create_session
create_session(database, session_id, now, write_ok) ==
    save_session(database, ChatSession(session_id, <<>>, now), now, write_ok)

\* ChatHistoryManager.delete_session
delete_session(database, session_id, write_ok) ==
    IF write_ok /\ session_id \in DOMAIN database
    THEN [database |-> [id \in DOMAIN database \ {session_id} |-> database[id]],
          deleted |-> TRUE]
    ELSE [database |-> database, deleted |-> FALSE]

(***************************************************************************)
(* graph/graph_builder.py: process_query_with_history, one turn of a       *)
(* session, in four steps: StartTurn (the session is found, the user       *)
(* message recorded and the initial state built), the two nodes of the     *)
(* graph, and Respond (the bot message is recorded, the session saved and  *)
(* the result returned).                                                   *)
(***************************************************************************)
VARIABLES
    pc,               \* where the turn in progress stands; "idle" between turns
    call,             \* the turn in progress: its query, and what it has done
    state,            \* the graph state of the turn in progress
    current_session,  \* ChatbotGraphBuilder.current_session: <<>> or <<session>>
    database,         \* the chat_sessions table: session id -> row
    next_session_id,  \* the id the next new session gets
    clock,            \* the time, in seconds
    turns,            \* turns started so far
    outcome,          \* how the last finished call ended: <<>> or <<record>>
    turn_log,         \* what each finished turn did, oldest first
    graph_built,      \* ChatbotGraphBuilder._graph is not None
    loaded_session,   \* what the last load_session returned: <<>> or <<session>>
    last_save,        \* the last save that reached the database: <<>> or <<record>>
    memory_index,     \* VectorStore._vector_store: <<>> (None) or <<chunks>>
    disk_index,       \* the index files under the database path
    use_vietnamese_model,  \* VectorStore.use_vietnamese_model
    store_call,       \* the last call on the store or the ingester, and its result
    store_calls,      \* calls on the store or the ingester so far
    kb_call,          \* a search_knowledge_base call and what it returned
    api_log,          \* the answers of the API so far, oldest first
    background_tasks, \* BackgroundTasks: the tasks added and not yet run
    cli,              \* a run of the ingestion command line, and where it stands
    intent_call,      \* an _extract_intent_patterns call and what it returned
    advisor_call,     \* a call on the weather advisor and what it returned
    filter_call,      \* a filter_documents_by_domain call and what it returned
    retention,        \* a clear_old_sessions call, its table and what it returned
    analyze_call,     \* an analyze_intent call and what it returned
    weather_call,     \* a call of a weather handler and what it did
    state_call,       \* a call on the state manager over the lists its arguments hold
    process,          \* one running API process: the retriever's store and the searches of its chat turns
    builders,         \* the graph builders that share the database, and what was asked of them
    ui                \* st.session_state of the Streamlit UI, and what its buttons did

\* The user queries of the model.
Queries ==
    {Q_BLANK, Q_WEATHER, Q_FOLLOWUP}

\* The clock advances by the lifetime of a cached reading.
ClockStep ==
    CACHE_TTL

TXT_DA_LAT ==
    <<"d", "a", " ", "l", "a", "t">>

QuietSearch ==
    [faiss_fails |-> FALSE, fallback_fails |-> FALSE, raises |-> FALSE,
     hybrid_empty |-> FALSE]

DOC_COFFEE ==
    [filename |-> <<"c", "a", "f", "e", ".", "p", "d", "f">>,
     page_content |-> <<"t", "u", "o", "i", " ", "c", "a", " ", "p", "h", "e">>,
     score |-> 80,
     relevance |-> 50]

\* The knowledge bases a handler can meet: no index, and an index with one
\* chunk.
KnowledgeBases ==
    {[retriever |-> DocumentRetriever(<<>>, FALSE), names_crop |-> FALSE,
      envs |-> <<QuietSearch, QuietSearch, QuietSearch>>, raises |-> FALSE],
     [retriever |-> DocumentRetriever(<<<<DOC_COFFEE>>>>, FALSE), names_crop |-> FALSE,
      envs |-> <<QuietSearch, QuietSearch, QuietSearch>>, raises |-> FALSE]}

\* What the pattern tiers of _extract_intent_patterns can make of the
\* queries of the model.
QueryPatterns(user_query) ==
    IF Contains(Lower(user_query), TXT_DA_LAT)
    THEN {create_intent_result("weather_query", 90, <<>>),
          create_intent_result("unknown", 10, <<>>)}
    ELSE {create_intent_result("search_document", 30, <<>>)}

\* What the LLM can answer on the queries of the model.
QueryLlmAnswers(user_query) ==
    IF Contains(Lower(user_query), TXT_DA_LAT)
    THEN {<<>>}
    ELSE {<<>>,
          <<create_intent_result("weather_agriculture", 90, <<>>)>>,
          <<create_intent_result("general_question", 150, <<>>)>>}

\* What the environment decides during IntentAnalyzer.analyze_intent and
\* around it: the pattern tier's result, the LLM's answer, and an exception
\* inside analyze_intent (exc) or inside the node (node_exc).
AnalysisCases(user_query) ==
    [pattern_result : QueryPatterns(user_query),
     llm_answer : QueryLlmAnswers(user_query),
     exc : {<<>>}, node_exc : {<<>>}]
    \cup [pattern_result : {create_intent_result("unknown", 10, <<>>)},
          llm_answer : {<<>>}, exc : {<<MSG_TIMEOUT>>, <<MSG_PYDANTIC>>},
          node_exc : {<<>>}]
    \cup [pattern_result : {create_intent_result("unknown", 10, <<>>)},
          llm_answer : {<<>>}, exc : {<<>>}, node_exc : {<<MSG_QUOTA>>}]

\* _extract_location_from_query on the queries of the model: the place
\* the query names, else the default city.
ExtractedLocation(user_query) ==
    IF Contains(Lower(user_query), TXT_DA_LAT) THEN "Da Lat" ELSE "Ho Chi Minh City"

\* What the environment decides during ActionExecutor.execute_action: the
\* knowledge base, the location _extract_location_from_query returns, the
\* reading get_current_weather returns (never None: the advisor falls back
\* to its demo record), an exception inside the handler, and whether the
\* LLM answers.
ActionEnvs(user_query) ==
    {[kb |-> kb, location |-> ExtractedLocation(user_query),
      weather |-> <<[location_name |-> ExtractedLocation(user_query),
                     origin |-> "api"]>>,
      raises |-> raises, llm_ok |-> llm_ok] :
        kb \in KnowledgeBases, raises \in BOOLEAN, llm_ok \in BOOLEAN}

\* A session a previous run of the program has left in the database: two
\* finished turns about the weather.
StoredSession ==
    LET metadata == <<[intent |-> "weather_query", confidence |-> 90,
                       response_type |-> "weather_query", sources |-> <<>>]>>
        turn1 == add_message(add_message(ChatSession(1, <<>>, 0), Q_WEATHER, TRUE, <<>>, 0),
                             RESP_WEATHER, FALSE, metadata, 0)
        turn2 == add_message(add_message(turn1, Q_WEATHER, TRUE, <<>>, 0),
                             RESP_WEATHER, FALSE, metadata, 0)
    IN  turn2

EmptyDatabase ==
    [id \in {} |-> <<>>]

StoredDatabase ==
    save_session(EmptyDatabase, StoredSession, 0, TRUE).database

NoCall ==
    [user_query |-> <<>>, session_id |-> NoSession, base_length |-> 0,
     started_at |-> 0, weather_fetches |-> 0, location_extractions |-> 0,
     action_ran |-> FALSE, caught |-> <<>>, raised |-> <<>>]

\* The scan of process_query over the conversation context, newest first:
\* the first entry with a weather intent decides, and gives a cache entry
\* when its response shows a temperature.
RECURSIVE ScanContext(_, _)
ScanContext(conversation_context, i) ==
    IF i = 0 THEN <<>>
    ELSE LET msg == conversation_context[i]
         IN  IF Get(msg, "intent", NoneVal) \in WeatherIntents
             THEN (IF Contains(Get(msg, "response", <<>>), TXT_DEGREE)
                   THEN <<[timestamp |-> Get(msg, "timestamp", 0),
                           location |-> "detected_location"]>>
                   ELSE <<>>)
             ELSE ScanContext(conversation_context, i - 1)

\* The previous_state process_query hands to create_initial_state.
PreviousState(conversation_context) ==
    IF conversation_context = <<>> THEN <<>>
    ELSE <<[conversation_history |-> conversation_context,
            last_weather_data |-> ScanContext(conversation_context,
                                              Len(conversation_context)),
            last_location |-> NoneVal]>>

\* The dict process_query returns when its try block raises.
SystemErrorState(user_query, error, now) ==
    [user_query |-> user_query,
     intent |-> "unknown",
     confidence |-> 0,
     response |-> RESP_SYSTEM_ERROR,
     response_type |-> "system_error",
     action_completed |-> FALSE,
     errors |-> <<error>>,
     timestamp |-> now]

\* Between turns there is no graph state.
NoState ==
    [user_query |-> <<>>]

turn_vars ==
    <<pc, call, state, next_session_id, turns, outcome, turn_log, graph_built>>

session_vars ==
    <<current_session, database, clock>>

history_vars ==
    <<loaded_session, last_save>>

store_vars ==
    <<memory_index, disk_index, use_vietnamese_model, store_call, store_calls>>

search_vars ==
    <<kb_call>>

api_vars ==
    <<api_log, background_tasks>>

cli_vars ==
    <<cli>>

function_vars ==
    <<intent_call, advisor_call, filter_call, retention>>

other_vars ==
    <<analyze_call, weather_call, state_call, process, builders, ui>>

ext_vars ==
    <<api_vars, cli_vars, function_vars, other_vars>>

vars ==
    <<turn_vars, session_vars, history_vars, store_vars, search_vars, ext_vars>>

NoStoreCall ==
    [op |-> "none"]

\* The graph builder after construction: no turn in progress, no session.
InitTurn ==
    /\ pc = "idle"
    /\ call = NoCall
    /\ state = NoState
    /\ next_session_id = 2
    /\ turns = 0
    /\ outcome = <<>>
    /\ turn_log = <<>>
    /\ graph_built = FALSE

InitHistory ==
    /\ loaded_session = <<>>
    /\ last_save = <<>>

\* The vector store after construction on a database path without index
\* files.
InitStore ==
    /\ memory_index = <<>>
    /\ disk_index = [faiss |-> <<>>, pkl |-> <<>>]
    /\ use_vietnamese_model = TRUE
    /\ store_call = NoStoreCall
    /\ store_calls = 0

\* No search_knowledge_base call of its own is pending.
InitSearch ==
    kb_call = [result |-> <<>>]

\* Nothing asked of the API, no command line run, no call pending.
InitApi ==
    /\ api_log = <<>>
    /\ background_tasks = <<>>

NoCli ==
    [pc |-> "none"]

InitCli ==
    cli = NoCli

InitFunctions ==
    /\ intent_call = [result |-> <<>>]
    /\ advisor_call = [result |-> <<>>]
    /\ filter_call = [result |-> <<>>]
    /\ retention = [result |-> <<>>]

InitOther ==
    /\ analyze_call = [result |-> <<>>]
    /\ weather_call = [result |-> <<>>]
    /\ state_call = [result |-> <<>>]
    /\ process = [result |-> <<>>]
    /\ builders = [result |-> <<>>]
    /\ ui = [result |-> <<>>]

InitExt ==
    /\ InitApi
    /\ InitCli
    /\ InitFunctions
    /\ InitOther

Init ==
    /\ InitTurn
    /\ current_session = <<>>
    /\ database = StoredDatabase
    /\ clock = 0
    /\ InitHistory
    /\ InitStore
    /\ InitExt
    /\ InitSearch

\* Time passes between turns; the clock starts with the first one.
Tick ==
    /\ pc = "idle"
    /\ turns > 0
    /\ clock + ClockStep <= MaxClock
    /\ clock' = clock + ClockStep
    /\ UNCHANGED <<pc, call, state, current_session, database, next_session_id,
                   turns, outcome, turn_log, graph_built>>
    /\ UNCHANGED <<history_vars, store_vars, search_vars, ext_vars>>

\* process_query_with_history up to the start of the graph.  The session is
\* loaded or created when there is none or another one is asked for; a
\* failing save inside create_session leaves the call by an exception.
\* process_query builds the graph when there is none, before its try block:
\* build_exc is <<>>, or <<str(e)>> when build_graph raises; invoke_exc is
\* the same for the try block.
StartTurn(user_query, session_id, read_ok, write_ok, build_exc, invoke_exc) ==
    /\ pc = "idle"
    /\ turns < MaxTurns
    /\ turns' = turns + 1
    /\ LET switch == current_session = <<>>
                     \/ (session_id # NoSession
                         /\ current_session[1].session_id # session_id)
           loaded == IF switch /\ session_id # NoSession
                     THEN load_session(database, session_id, read_ok) ELSE <<>>
           create == switch /\ loaded = <<>>
           created == create_session(database, next_session_id, clock, write_ok)
           session == IF ~switch THEN current_session[1]
                      ELSE IF loaded # <<>> THEN loaded[1]
                      ELSE created.session
           with_user == add_message(session, user_query, TRUE, <<>>, clock)
           conversation_context == get_context(with_user, CONTEXT_MESSAGES)
       IN  IF create /\ created.raised
           THEN /\ outcome' = <<[raised |-> TRUE, user_query |-> user_query,
                                 base_length |-> 0]>>
                /\ next_session_id' = next_session_id + 1
                /\ UNCHANGED <<pc, call, state, current_session, database, turn_log,
                               graph_built>>
           ELSE /\ current_session' = <<with_user>>
                /\ database' = IF create THEN created.database ELSE database
                /\ next_session_id' = IF create THEN next_session_id + 1
                                      ELSE next_session_id
                /\ call' = [user_query |-> user_query,
                            session_id |-> session.session_id,
                            base_length |-> Len(session.messages),
                            started_at |-> clock,
                            weather_fetches |-> 0,
                            location_extractions |-> 0,
                            action_ran |-> FALSE,
                            caught |-> IF ~graph_built /\ build_exc # <<>>
                                       THEN <<>> ELSE invoke_exc,
                            raised |-> IF graph_built THEN <<>> ELSE build_exc]
                /\ graph_built' = (graph_built \/ build_exc = <<>>)
                /\ IF ~graph_built /\ build_exc # <<>>
                   THEN /\ state' = NoState
                        /\ pc' = "respond"
                   ELSE IF invoke_exc = <<>>
                   THEN /\ state' = create_initial_state(
                                        user_query, PreviousState(conversation_context), clock)
                        /\ pc' = INTENT_ANALYSIS_NODE
                   ELSE /\ state' = SystemErrorState(user_query, invoke_exc[1], clock)
                        /\ pc' = "respond"
                /\ UNCHANGED <<outcome, turn_log>>
    /\ UNCHANGED <<clock, history_vars, store_vars, search_vars, ext_vars>>

\* The intent_analysis node, and the router that follows it.
IntentAnalysisStep(case) ==
    /\ pc = INTENT_ANALYSIS_NODE
    /\ LET analysis_result == analyze_intent(state.user_query, case.pattern_result,
                                             case.llm_answer, case.exc)
           updated_state == intent_analysis_node(state, analysis_result, case.node_exc)
       IN  /\ state' = updated_state
           /\ pc' = IF route_after_intent_analysis(updated_state) = END
                    THEN "respond" ELSE ACTION_EXECUTION_NODE
    /\ UNCHANGED <<call, current_session, database, next_session_id, clock,
                   turns, outcome, turn_log, graph_built>>
    /\ UNCHANGED <<history_vars, store_vars, search_vars, ext_vars>>

\* The action_execution node; the graph ends after it.
ActionExecutionStep(env, node_exc) ==
    /\ pc = ACTION_EXECUTION_NODE
    /\ state' = action_execution_node(state, env, node_exc, clock)
    /\ call' = [call EXCEPT
                   !.weather_fetches =
                       IF node_exc = <<>> THEN WeatherFetches(state, env, clock) ELSE 0,
                   !.location_extractions =
                       IF node_exc = <<>> THEN LocationExtractions(state, env, clock) ELSE 0,
                   !.action_ran = node_exc = <<>>]
    /\ pc' = "respond"
    /\ UNCHANGED <<current_session, database, next_session_id, clock, turns,
                   outcome, turn_log, graph_built>>
    /\ UNCHANGED <<history_vars, store_vars, search_vars, ext_vars>>

\* The summary of the turn kept in turn_log.
TurnSummary ==
    [session_id |-> call.session_id,
     user_query |-> call.user_query,
     started_at |-> call.started_at,
     intent |-> Get(state, "intent", NoneVal),
     response_type |-> Get(state, "response_type", ""),
     last_location |-> Get(state, "last_location", NoneVal),
     weather_fetches |-> call.weather_fetches,
     location_extractions |-> call.location_extractions,
     action_ran |-> call.action_ran,
     history_length |-> Len(Get(state, "conversation_history", <<>>)),
     execution_path |-> Get(state, "execution_path", <<>>)]

\* process_query_with_history after process_query has returned: the bot
\* message, the save and the result; when the save raises, the except
\* branch records the error text and saves again, outside any try.  An
\* exception that left process_query goes to the same except branch.
Respond(write_ok, retry_ok) ==
    /\ pc = "respond"
    /\ LET metadata == <<[intent |-> Get(state, "intent", NoneVal),
                          confidence |-> Get(state, "confidence", 0),
                          response_type |-> Get(state, "response_type", NoneVal),
                          sources |-> Get(state, "sources", <<>>)]>>
           with_bot == add_message(current_session[1], state.response, FALSE,
                                   metadata, clock)
           saved == IF call.raised # <<>>
                    THEN [session |-> current_session[1], database |-> database,
                          raised |-> TRUE]
                    ELSE save_session(database, with_bot, clock, write_ok)
           error_response == PFX_SORRY \o (IF call.raised # <<>> THEN call.raised[1]
                                           ELSE MSG_TIMEOUT)
           with_error == add_message(saved.session, error_response, FALSE, <<>>, clock)
           retried == save_session(database, with_error, clock, retry_ok)
       IN  IF ~saved.raised
           THEN /\ current_session' = <<saved.session>>
                /\ database' = saved.database
                /\ outcome' = <<[raised |-> FALSE,
                                 user_query |-> call.user_query,
                                 base_length |-> call.base_length,
                                 response |-> state.response,
                                 session_id |-> saved.session.session_id,
                                 conversation_length |-> Len(saved.session.messages),
                                 minimal |-> FALSE]>>
           ELSE /\ current_session' = <<retried.session>>
                /\ database' = retried.database
                /\ outcome' = IF retried.raised
                              THEN <<[raised |-> TRUE, user_query |-> call.user_query,
                                      base_length |-> call.base_length]>>
                              ELSE <<[raised |-> FALSE,
                                      user_query |-> call.user_query,
                                      base_length |-> call.base_length,
                                      response |-> error_response,
                                      session_id |-> retried.session.session_id,
                                      conversation_length |-> Len(retried.session.messages),
                                      minimal |-> TRUE]>>
    /\ turn_log' = Append(turn_log, TurnSummary)
    /\ pc' = "idle"
    /\ call' = NoCall
    /\ state' = NoState
    /\ UNCHANGED <<next_session_id, clock, turns, graph_built>>
    /\ UNCHANGED <<history_vars, store_vars, search_vars, ext_vars>>

Next ==
    \/ Tick
    \/ \E user_query \in Queries, session_id \in {NoSession, 1},
          read_ok \in BOOLEAN, write_ok \in BOOLEAN,
          build_exc \in (IF graph_built THEN {<<>>} ELSE {<<>>, <<MSG_TIMEOUT>>}),
          invoke_exc \in {<<>>, <<MSG_TIMEOUT>>} :
            StartTurn(user_query, session_id, read_ok, write_ok, build_exc, invoke_exc)
    \/ \E case \in AnalysisCases(call.user_query) : IntentAnalysisStep(case)
    \/ \E env \in ActionEnvs(call.user_query), node_exc \in {<<>>, <<MSG_TIMEOUT>>} :
            ActionExecutionStep(env, node_exc)
    \/ \E write_ok \in BOOLEAN, retry_ok \in BOOLEAN : Respond(write_ok, retry_ok)

Spec ==
    Init /\ [][Next]_vars

(***************************************************************************)
(* chat/history_manager.py on its own: a caller that creates a session,    *)
(* adds messages to it, saves it and loads it back by its id.              *)
(***************************************************************************)
\* The longest session of this specification.
MaxMessages == 2
\* How many sessions the caller of this specification may try to create.
MaxSessions == 2
\* How far the clock of this specification runs.
MaxTicks == 2

\* Message texts: plain, with the characters JSON escapes, and one that
\* reads like an escape.
MessageTexts ==
    {<<"h", "i">>,
     <<"\"", "a", "\\">>,
     <<"2", "5", "°", "C", "\n">>,
     <<"\\", "u", "0", "0", "b", "0">>}

\* What a save leaves for later comparison: updated_at as it was before the
\* call, and the session as the call wrote it.
SaveRecord(before, saved) ==
    IF saved.raised THEN last_save
    ELSE <<[updated_before |-> before.updated_at, session |-> saved.session]>>

InitHistorySpec ==
    /\ InitTurn
    /\ current_session = <<>>
    /\ database = EmptyDatabase
    /\ clock = 0
    /\ InitHistory
    /\ InitStore
    /\ InitExt
    /\ InitSearch

\* create_session: the caller holds the new session unless the save raised.
CreateSession(write_ok) ==
    /\ current_session = <<>>
    /\ next_session_id < 2 + MaxSessions
    /\ LET created == create_session(database, next_session_id, clock, write_ok)
       IN  /\ current_session' = IF created.raised THEN <<>> ELSE <<created.session>>
           /\ database' = created.database
           /\ last_save' = SaveRecord(ChatSession(next_session_id, <<>>, clock), created)
           /\ loaded_session' = IF created.raised THEN loaded_session ELSE <<>>
    /\ next_session_id' = next_session_id + 1
    /\ UNCHANGED <<pc, call, state, turns, outcome, turn_log, graph_built, clock>>
    /\ UNCHANGED <<store_vars, search_vars, ext_vars>>

AddMessage(content, is_user) ==
    /\ current_session # <<>>
    /\ Len(current_session[1].messages) < MaxMessages
    /\ current_session' = <<add_message(current_session[1], content, is_user, <<>>, clock)>>
    /\ UNCHANGED <<turn_vars, database, clock, history_vars, store_vars, search_vars, ext_vars>>

SaveSession(write_ok) ==
    /\ current_session # <<>>
    /\ LET saved == save_session(database, current_session[1], clock, write_ok)
       IN  /\ current_session' = <<saved.session>>
           /\ database' = saved.database
           /\ last_save' = SaveRecord(current_session[1], saved)
           /\ loaded_session' = IF saved.raised THEN loaded_session ELSE <<>>
    /\ UNCHANGED <<turn_vars, clock, store_vars, search_vars, ext_vars>>

LoadSession(read_ok) ==
    /\ current_session # <<>>
    /\ loaded_session' = load_session(database, current_session[1].session_id, read_ok)
    /\ UNCHANGED <<turn_vars, session_vars, last_save, store_vars, search_vars, ext_vars>>

HistoryTick ==
    /\ clock < MaxTicks
    /\ clock' = clock + 1
    /\ UNCHANGED <<turn_vars, current_session, database, history_vars, store_vars,
                   search_vars, ext_vars>>

NextHistory ==
    \/ \E write_ok \in BOOLEAN : CreateSession(write_ok)
    \/ \E content \in MessageTexts, is_user \in BOOLEAN : AddMessage(content, is_user)
    \/ \E write_ok \in BOOLEAN : SaveSession(write_ok)
    \/ \E read_ok \in BOOLEAN : LoadSession(read_ok)
    \/ HistoryTick

SpecHistory ==
    InitHistorySpec /\ [][NextHistory]_vars

(***************************************************************************)
(* ingest/vector_store.py and ingest/data_ingester.py.  A chunk is a       *)
(* record of a key, standing for its metadata, and its page_content.  The  *)
(* in-memory index is None (<<>>) or the chunks it holds (<<chunks>>); the *)
(* database path holds the two files save_local writes, faiss_index.faiss  *)
(* and faiss_index.pkl, each absent (<<>>) or written with the chunks of   *)
(* the index that was saved.  An id "doc_{n}" is the pair <<"doc_", n>>.   *)
(***************************************************************************)
\* How many calls on the store one behaviour makes.
MaxStoreCalls == 2

BATCH_SIZE == 50
MAX_TEXT_LENGTH == 400
ELLIPSIS == <<".", ".", ".">>

\* A text one character longer than the store keeps.
LongText ==
    [i \in 1..(MAX_TEXT_LENGTH + 1) |-> "x"]

Document(key, page_content) ==
    [key |-> key, page_content |-> page_content]

truncate_text(text) ==
    IF Len(text) <= MAX_TEXT_LENGTH THEN text
    ELSE FirstN(text, MAX_TEXT_LENGTH - 3) \o ELLIPSIS

\* The documents add_documents keeps: non-blank, truncated.
valid_docs(documents) ==
    LET kept == SelectSeq(documents, LAMBDA doc : Strip(doc.page_content) # <<>>)
    IN  [i \in 1..Len(kept) |-> Document(kept[i].key, truncate_text(kept[i].page_content))]

total_batches(valid) ==
    (Len(valid) + BATCH_SIZE - 1) \div BATCH_SIZE

\* valid_docs[i:i + batch_size] for the batch numbered batch_num.
batch_of(valid, batch_num) ==
    SubSeq(valid, (batch_num - 1) * BATCH_SIZE + 1,
           IF batch_num * BATCH_SIZE < Len(valid) THEN batch_num * BATCH_SIZE
           ELSE Len(valid))

\* How one batch can go: added and saved; the embedding or the index
\* raising some error; the Vietnamese model raising "index out of range";
\* the index updated and save_local raising.
BatchOutcomes ==
    {"ok", "error", "token_error", "save_error"}

\* _save_index: save_local rewrites both files from the in-memory index.
save_index(memory, files) ==
    IF memory = <<>> THEN files
    ELSE [faiss |-> memory, pkl |-> memory]

\* One pass of the batch loop, the ids kept only once the save went through.
add_batch_ids_after_save(store, batch, batch_outcome) ==
    LET added == IF store.memory = <<>> THEN <<batch>>
                 ELSE <<store.memory[1] \o batch>>
        batch_ids == [j \in 1..Len(batch) |-> <<"doc_", Len(store.ids) + j - 1>>]
    IN  CASE batch_outcome = "ok" ->
               [store EXCEPT !.memory = added,
                             !.ids = store.ids \o batch_ids,
                             !.files = save_index(added, store.files)]
          [] batch_outcome = "save_error" ->
               [store EXCEPT !.memory = added]
          [] batch_outcome = "token_error" /\ store.use_vietnamese_model ->
               [store EXCEPT !.use_vietnamese_model = FALSE, !.memory = <<>>]
          [] OTHER -> store

\* One pass of the batch loop of add_documents.
add_batch(store, batch, batch_outcome) ==
    LET added == IF store.memory = <<>> THEN <<batch>>
                 ELSE <<store.memory[1] \o batch>>
        batch_ids == [j \in 1..Len(batch) |-> <<"doc_", Len(store.ids) + j - 1>>]
    IN  CASE batch_outcome = "ok" ->
               [store EXCEPT !.memory = added,
                             !.ids = store.ids \o batch_ids,
                             !.files = save_index(added, store.files)]
          [] batch_outcome = "save_error" ->
               [store EXCEPT !.memory = added,
                             !.ids = store.ids \o batch_ids]
          [] batch_outcome = "token_error" /\ store.use_vietnamese_model ->
               [store EXCEPT !.use_vietnamese_model = FALSE, !.memory = <<>>]
          [] OTHER -> store

RECURSIVE add_batches(_, _, _, _)
add_batches(store, valid, outcomes, batch_num) ==
    IF batch_num > total_batches(valid) THEN store
    ELSE add_batches(add_batch(store, batch_of(valid, batch_num), outcomes[batch_num]),
                     valid, outcomes, batch_num + 1)

\* add_documents on a store [memory, files, use_vietnamese_model]; the
\* result carries the ids the call returns.
add_documents(store, documents, outcomes) ==
    LET valid == valid_docs(documents)
        start == [memory |-> store.memory, files |-> store.files,
                  use_vietnamese_model |-> store.use_vietnamese_model, ids |-> <<>>]
    IN  IF valid = <<>> THEN start
        ELSE add_batches(start, valid, outcomes, 1)

\* clear_collection: unlinks faiss_index.pkl (and metadata.pkl, which
\* nothing writes) and drops the in-memory index.
clear_collection(store) ==
    [store EXCEPT !.files = [store.files EXCEPT !.pkl = <<>>], !.memory = <<>>]

\* _create_or_load_vector_store: load_local reads both files when
\* faiss_index.pkl exists; any failure gives None.
create_or_load_vector_store(files, load_ok) ==
    IF files.pkl # <<>> /\ files.faiss # <<>> /\ load_ok THEN files.pkl ELSE <<>>

\* What the path given to the ingester can be.
PathKinds ==
    {"missing", "file", "directory"}

\* ingest_from_directory with the collection cleared before the path is
\* looked at.
ingest_from_directory_clear_first(store, path, clear_existing, documents, outcomes) ==
    LET base == [memory |-> store.memory, files |-> store.files,
                 use_vietnamese_model |-> store.use_vietnamese_model, ids |-> <<>>]
        cleared == IF clear_existing THEN clear_collection(base) ELSE base
    IN  IF path = "missing"
        THEN [store |-> cleared, raised |-> "FileNotFoundError", returned |-> 0]
        ELSE IF path # "directory"
        THEN [store |-> cleared, raised |-> "ValueError", returned |-> 0]
        ELSE IF documents = <<>>
        THEN [store |-> cleared, raised |-> NoneVal, returned |-> 0]
        ELSE [store |-> add_documents(cleared, documents, outcomes),
              raised |-> NoneVal, returned |-> Len(documents)]

\* ingest_from_directory with the collection cleared only once the
\* directory gave chunks.
ingest_from_directory_clear_when_chunks(store, path, clear_existing, documents, outcomes) ==
    LET base == [memory |-> store.memory, files |-> store.files,
                 use_vietnamese_model |-> store.use_vietnamese_model, ids |-> <<>>]
        cleared == IF clear_existing THEN clear_collection(base) ELSE base
    IN  IF path = "missing"
        THEN [store |-> base, raised |-> "FileNotFoundError", returned |-> 0]
        ELSE IF path # "directory"
        THEN [store |-> base, raised |-> "ValueError", returned |-> 0]
        ELSE IF documents = <<>>
        THEN [store |-> base, raised |-> NoneVal, returned |-> 0]
        ELSE [store |-> add_documents(cleared, documents, outcomes),
              raised |-> NoneVal, returned |-> Len(documents)]

\* ingest_from_directory; documents is what process_directory makes of the
\* directory.
ingest_from_directory(store, path, clear_existing, documents, outcomes) ==
    LET base == [memory |-> store.memory, files |-> store.files,
                 use_vietnamese_model |-> store.use_vietnamese_model, ids |-> <<>>]
        cleared == IF clear_existing THEN clear_collection(base) ELSE base
    IN  IF path = "missing"
        THEN [store |-> base, raised |-> "FileNotFoundError", returned |-> 0]
        ELSE IF path # "directory"
        THEN [store |-> base, raised |-> "ValueError", returned |-> 0]
        ELSE IF documents = <<>>
        THEN [store |-> cleared, raised |-> NoneVal, returned |-> 0]
        ELSE [store |-> add_documents(cleared, documents, outcomes),
              raised |-> NoneVal, returned |-> Len(documents)]

(***************************************************************************)
(* The store under a caller.                                               *)
(***************************************************************************)
TXT_BLANK == <<" ", "\n">>
TXT_CHUNK == <<"l", "u", "a">>

\* The document lists a call is given: how many, and what they hold.
DocumentShapes ==
    {[count |-> 0, content |-> "plain"],
     [count |-> 2, content |-> "long"],
     [count |-> 50, content |-> "plain"],
     [count |-> 60, content |-> "blanks"],
     [count |-> 120, content |-> "plain"]}

IngestShapes ==
    {[count |-> 0, content |-> "plain"],
     [count |-> 60, content |-> "blanks"]}

\* Keys of different calls differ.
InputDocuments(shape, call_number) ==
    [i \in 1..shape.count |->
        Document(call_number * 1000 + i,
                 IF shape.content = "blanks" /\ i % 7 = 0 THEN TXT_BLANK
                 ELSE IF shape.content = "long" /\ i = 1 THEN LongText
                 ELSE TXT_CHUNK)]

\* One outcome for each batch the documents make.
OutcomesFor(documents) ==
    [1..total_batches(valid_docs(documents)) -> BatchOutcomes]

TheStore ==
    [memory |-> memory_index, files |-> disk_index,
     use_vietnamese_model |-> use_vietnamese_model]

InitStoreSpec ==
    /\ InitTurn
    /\ current_session = <<>>
    /\ database = EmptyDatabase
    /\ clock = 0
    /\ InitHistory
    /\ InitStore
    /\ InitExt
    /\ InitSearch

AddDocuments(shape, outcomes) ==
    /\ store_calls < MaxStoreCalls
    /\ store_calls' = store_calls + 1
    /\ LET after == add_documents(TheStore, InputDocuments(shape, store_calls'), outcomes)
       IN  /\ memory_index' = after.memory
           /\ disk_index' = after.files
           /\ use_vietnamese_model' = after.use_vietnamese_model
           /\ store_call' = [op |-> "add_documents", shape |-> shape,
                             outcomes |-> outcomes, ids |-> after.ids]
    /\ UNCHANGED <<turn_vars, session_vars, history_vars, search_vars, ext_vars>>

ClearCollection ==
    /\ store_calls < MaxStoreCalls
    /\ store_calls' = store_calls + 1
    /\ LET after == clear_collection(TheStore)
       IN  /\ memory_index' = after.memory
           /\ disk_index' = after.files
    /\ store_call' = [op |-> "clear_collection"]
    /\ UNCHANGED <<use_vietnamese_model, turn_vars, session_vars, history_vars,
                   search_vars, ext_vars>>

IngestFromDirectory(path, clear_existing, shape, outcomes) ==
    /\ store_calls < MaxStoreCalls
    /\ store_calls' = store_calls + 1
    /\ LET done == ingest_from_directory(TheStore, path, clear_existing,
                                         InputDocuments(shape, store_calls'), outcomes)
       IN  /\ memory_index' = done.store.memory
           /\ disk_index' = done.store.files
           /\ use_vietnamese_model' = done.store.use_vietnamese_model
           /\ store_call' = [op |-> "ingest_from_directory", path |-> path,
                             clear_existing |-> clear_existing, shape |-> shape,
                             outcomes |-> outcomes, raised |-> done.raised,
                             returned |-> done.returned]
    /\ UNCHANGED <<turn_vars, session_vars, history_vars, search_vars, ext_vars>>

\* A new process constructs the store: __init__ loads the index when
\* faiss_index.pkl exists.
ConstructVectorStore(load_ok) ==
    /\ store_calls < MaxStoreCalls
    /\ store_calls' = store_calls + 1
    /\ memory_index' = create_or_load_vector_store(disk_index, load_ok)
    /\ use_vietnamese_model' = TRUE
    /\ store_call' = [op |-> "__init__"]
    /\ UNCHANGED <<disk_index, turn_vars, session_vars, history_vars, search_vars, ext_vars>>

NextStore ==
    \/ \E shape \in DocumentShapes :
         \E outcomes \in OutcomesFor(InputDocuments(shape, 0)) :
           AddDocuments(shape, outcomes)
    \/ ClearCollection
    \/ \E clear_existing \in BOOLEAN :
         \/ \E path \in {"missing", "file"} :
              IngestFromDirectory(path, clear_existing,
                                  [count |-> 0, content |-> "plain"], <<>>)
         \/ \E shape \in IngestShapes :
              \E outcomes \in OutcomesFor(InputDocuments(shape, 0)) :
                IngestFromDirectory("directory", clear_existing, shape, outcomes)
    \/ \E load_ok \in BOOLEAN : ConstructVectorStore(load_ok)

SpecStore ==
    InitStoreSpec /\ [][NextStore]_vars

(***************************************************************************)
(* tools/search_tools.py on its own: search_knowledge_base called on a     *)
(* retriever built over one index and searching the index as it is at the  *)
(* time of the call.                                                       *)
(***************************************************************************)
\* The largest limit a search of this specification asks for.
MaxLimit == 2

DOC_RICE ==
    [filename |-> <<"l", "u", "a", ".", "p", "d", "f">>,
     page_content |-> <<" ", "b", "o", "n", " ", "l", "u", "a", "\n">>,
     score |-> 40,
     relevance |-> 5]

\* The indexes of this specification: none, an empty one, one chunk, two.
Indexes ==
    {<<>>, <<<<>>>>, <<<<DOC_COFFEE>>>>, <<<<DOC_COFFEE, DOC_RICE>>>>}

\* How one retriever call can go.
SearchEnvCases ==
    {QuietSearch,
     [QuietSearch EXCEPT !.faiss_fails = TRUE],
     [QuietSearch EXCEPT !.hybrid_empty = TRUE],
     [QuietSearch EXCEPT !.raises = TRUE],
     [QuietSearch EXCEPT !.raises = TRUE, !.fallback_fails = TRUE]}

\* The calls of this specification, before they are made.
SearchCalls ==
    {[retriever |-> [DocumentRetriever(built_on, FALSE) EXCEPT !.store = store],
      names_crop |-> names_crop, limit |-> limit, min_score |-> min_score,
      envs |-> <<e1, e2, e3>>, kb_raises |-> kb_raises, result |-> <<>>] :
        built_on \in Indexes, store \in Indexes, names_crop \in BOOLEAN,
        limit \in 1..MaxLimit, min_score \in {20, 50},
        e1 \in SearchEnvCases, e2 \in SearchEnvCases, e3 \in SearchEnvCases,
        kb_raises \in BOOLEAN}

InitSearchSpec ==
    /\ InitTurn
    /\ current_session = <<>>
    /\ database = EmptyDatabase
    /\ clock = 0
    /\ InitHistory
    /\ InitStore
    /\ InitExt
    /\ kb_call \in SearchCalls

SearchKnowledgeBase ==
    /\ kb_call.result = <<>>
    /\ kb_call' = [kb_call EXCEPT !.result =
                      <<search_knowledge_base(
                            kb_call.retriever, [names_crop |-> kb_call.names_crop],
                            kb_call.limit, kb_call.min_score, kb_call.envs,
                            kb_call.kb_raises)>>]
    /\ UNCHANGED <<turn_vars, session_vars, history_vars, store_vars, ext_vars>>

NextSearch ==
    SearchKnowledgeBase

SpecSearch ==
    InitSearchSpec /\ [][NextSearch]_vars
(***************************************************************************)
(* One running API process.  api/routes.py builds chatbot =                *)
(* ChatbotGraphBuilder() and data_ingester = DataIngester() at import.     *)
(* The ingester constructs its own VectorStore (ingest/data_ingester.py    *)
(* line 19), and the DocumentRetriever under the chatbot constructs        *)
(* another (tools/document_retriever.py line 18); each loads the index     *)
(* files into its own _vector_store when it is constructed.  memory_index  *)
(* is the ingester's handle, process.retriever_index the retriever's.      *)
(***************************************************************************)
MaxProcessSteps == 3

\* The index files the process can find when it starts.
StartFiles ==
    {[faiss |-> <<>>, pkl |-> <<>>],
     [faiss |-> <<InputDocuments([count |-> 2, content |-> "plain"], 0)>>,
      pkl |-> <<InputDocuments([count |-> 2, content |-> "plain"], 0)>>]}

\* What a directory can give the ingester.
ProcessShapes ==
    {[count |-> 0, content |-> "plain"],
     [count |-> 2, content |-> "plain"],
     [count |-> 60, content |-> "blanks"]}

InitProcessSpec ==
    /\ InitTurn
    /\ current_session = <<>>
    /\ database = EmptyDatabase
    /\ clock = 0
    /\ InitHistory
    /\ InitSearch
    /\ InitApi
    /\ InitCli
    /\ InitFunctions
    /\ analyze_call = [result |-> <<>>]
    /\ weather_call = [result |-> <<>>]
    /\ state_call = [result |-> <<>>]
    /\ builders = [result |-> <<>>]
    /\ ui = [result |-> <<>>]
    /\ disk_index \in StartFiles
    /\ memory_index = create_or_load_vector_store(disk_index, TRUE)
    /\ use_vietnamese_model = TRUE
    /\ store_call = NoStoreCall
    /\ store_calls = 0
    /\ process = [retriever_index |-> create_or_load_vector_store(disk_index, TRUE),
                  steps |-> 0, ingestions |-> 0, result |-> <<>>]

\* run_ingestion, the background task of POST /ingest:
\* data_ingester.ingest_from_directory on the ingester's store.
RunProcessIngestion(clear_existing, shape, outcomes) ==
    /\ process.steps < MaxProcessSteps
    /\ LET done == ingest_from_directory(TheStore, "directory", clear_existing,
                                         InputDocuments(shape, process.ingestions + 1),
                                         outcomes)
       IN  /\ memory_index' = done.store.memory
           /\ disk_index' = done.store.files
           /\ use_vietnamese_model' = done.store.use_vietnamese_model
    /\ process' = [process EXCEPT !.steps = @ + 1, !.ingestions = @ + 1,
                                  !.result = <<>>]
    /\ UNCHANGED <<store_call, store_calls, turn_vars, session_vars, history_vars,
                   search_vars, api_vars, cli_vars, function_vars,
                   analyze_call, weather_call, state_call, builders, ui>>

\* A search of a chat turn: similarity_search on the retriever's store.
ProcessSearch(k) ==
    /\ process.steps < MaxProcessSteps
    /\ process' = [process EXCEPT !.steps = @ + 1,
                                  !.result = <<[k |-> k,
                                                found |-> similarity_search(
                                                    process.retriever_index, k, FALSE)]>>]
    /\ UNCHANGED <<store_vars, turn_vars, session_vars, history_vars,
                   search_vars, api_vars, cli_vars, function_vars,
                   analyze_call, weather_call, state_call, builders, ui>>

NextProcess ==
    \/ \E clear_existing \in BOOLEAN, shape \in ProcessShapes :
         \E outcomes \in OutcomesFor(InputDocuments(shape, 0)) :
           RunProcessIngestion(clear_existing, shape, outcomes)
    \/ \E k \in {1, 5} : ProcessSearch(k)

SpecProcess ==
    InitProcessSpec /\ [][NextProcess]_vars

(***************************************************************************)
(* graph/graph_builder.py: the session side of a ChatbotGraphBuilder.      *)
(* Every builder holds its own current_session; the chat_sessions table is *)
(* shared by all builders on one database path (the API's chatbot and the  *)
(* chatbot each Streamlit browser session keeps).                          *)
(***************************************************************************)
MaxBuilderSteps == 3

\* process_query_with_history as the sessions see it, on a builder whose
\* current_session is current.  response is what process_query answered.
\* The session is loaded or created when the builder has none or another
\* one is asked for; the user message and the answer are added and the
\* session is saved; when the save raises, the except branch adds the
\* error text and saves again, outside any try.  session_id is the id in
\* the result, NoSession when the call is left by an exception.
process_query_with_history(current, table, next_id, user_query, session_id, response, now, read_ok, write_ok, retry_ok) ==
    LET switch == current = <<>>
                  \/ (session_id # NoSession /\ current[1].session_id # session_id)
        loaded == IF switch /\ session_id # NoSession
                  THEN load_session(table, session_id, read_ok) ELSE <<>>
        create == switch /\ loaded = <<>>
        created == create_session(table, next_id, now, write_ok)
        session == IF ~switch THEN current[1]
                   ELSE IF loaded # <<>> THEN loaded[1]
                   ELSE created.session
        base == IF create THEN created.database ELSE table
        with_user == add_message(session, user_query, TRUE, <<>>, now)
        with_bot == add_message(with_user, response, FALSE, <<>>, now)
        saved == save_session(base, with_bot, now, write_ok)
        with_error == add_message(saved.session, PFX_SORRY \o MSG_TIMEOUT, FALSE, <<>>, now)
        retried == save_session(base, with_error, now, retry_ok)
        after_id == IF create THEN next_id + 1 ELSE next_id
    IN  IF create /\ created.raised
        THEN [current |-> current, database |-> table, next_id |-> after_id,
              raised |-> TRUE, session_id |-> NoSession]
        ELSE IF ~saved.raised
        THEN [current |-> <<saved.session>>, database |-> saved.database,
              next_id |-> after_id, raised |-> FALSE,
              session_id |-> saved.session.session_id]
        ELSE [current |-> <<retried.session>>, database |-> retried.database,
              next_id |-> after_id, raised |-> retried.raised,
              session_id |-> IF retried.raised THEN NoSession
                             ELSE retried.session.session_id]

\* ChatbotGraphBuilder.load_session
builder_load_session(current, table, session_id, read_ok) ==
    LET session == load_session(table, session_id, read_ok)
    IN  [current |-> IF session # <<>> THEN session ELSE current,
         returned |-> session # <<>>]

\* ChatbotGraphBuilder.delete_session
builder_delete_session(current, table, session_id, write_ok) ==
    LET done == delete_session(table, session_id, write_ok)
    IN  [current |-> IF done.deleted /\ current # <<>>
                        /\ current[1].session_id = session_id
                     THEN <<>> ELSE current,
         database |-> done.database,
         returned |-> done.deleted]

\* ChatHistoryManager.list_sessions: the ids of the rows
\* ORDER BY updated_at DESC LIMIT limit can give; rows of one updated_at
\* come in any order.
list_sessions(table, limit) ==
    {listed \in SUBSET DOMAIN table :
        /\ Cardinality(listed) = (IF Cardinality(DOMAIN table) < limit
                                  THEN Cardinality(DOMAIN table) ELSE limit)
        /\ \A id \in listed, other \in DOMAIN table \ listed :
             table[id].updated_at >= table[other].updated_at}

Builders ==
    {1, 2}

\* The session ids a caller can name: none, the stored session, a session
\* made by a turn.
NamedSessions ==
    {NoSession, 1, 2}

InitBuildersSpec ==
    /\ InitTurn
    /\ current_session = <<>>
    /\ database = StoredDatabase
    /\ clock = 0
    /\ InitHistory
    /\ InitStore
    /\ InitSearch
    /\ InitApi
    /\ InitCli
    /\ InitFunctions
    /\ analyze_call = [result |-> <<>>]
    /\ weather_call = [result |-> <<>>]
    /\ state_call = [result |-> <<>>]
    /\ process = [result |-> <<>>]
    /\ ui = [result |-> <<>>]
    /\ builders = [current |-> [b \in Builders |-> <<>>], deleted |-> {},
                   steps |-> 0, result |-> <<>>]

BuildersFrame ==
    /\ UNCHANGED <<pc, call, state, turns, outcome, turn_log, graph_built>>
    /\ UNCHANGED <<current_session, clock, history_vars, store_vars, search_vars>>
    /\ UNCHANGED <<api_vars, cli_vars, function_vars,
                   analyze_call, weather_call, state_call, process, ui>>

\* A turn on builder b.  A session a turn names is no longer held to stay
\* deleted.
BuilderTurn(b, session_id, read_ok, write_ok, retry_ok) ==
    /\ builders.steps < MaxBuilderSteps
    /\ LET done == process_query_with_history(builders.current[b], database,
                       next_session_id, Q_WEATHER, session_id, RESP_ANSWER, clock,
                       read_ok, write_ok, retry_ok)
       IN  /\ database' = done.database
           /\ next_session_id' = done.next_id
           /\ builders' = [current |-> [builders.current EXCEPT ![b] = done.current],
                           deleted |-> builders.deleted \ {session_id},
                           steps |-> builders.steps + 1,
                           result |-> <<[op |-> "process_query_with_history",
                                         builder |-> b, session_id |-> session_id,
                                         returned |-> done.session_id]>>]
    /\ BuildersFrame

BuilderLoadSession(b, session_id, read_ok) ==
    /\ builders.steps < MaxBuilderSteps
    /\ LET done == builder_load_session(builders.current[b], database, session_id, read_ok)
       IN  builders' = [current |-> [builders.current EXCEPT ![b] = done.current],
                        deleted |-> builders.deleted \ {session_id},
                        steps |-> builders.steps + 1,
                        result |-> <<[op |-> "load_session", builder |-> b,
                                      session_id |-> session_id,
                                      returned |-> done.returned]>>]
    /\ UNCHANGED <<database, next_session_id>>
    /\ BuildersFrame

BuilderDeleteSession(b, session_id, write_ok) ==
    /\ builders.steps < MaxBuilderSteps
    /\ LET done == builder_delete_session(builders.current[b], database, session_id,
                                          write_ok)
       IN  /\ database' = done.database
           /\ builders' = [current |-> [builders.current EXCEPT ![b] = done.current],
                           deleted |-> IF done.returned
                                       THEN builders.deleted \cup {session_id}
                                       ELSE builders.deleted,
                           steps |-> builders.steps + 1,
                           result |-> <<[op |-> "delete_session", builder |-> b,
                                         session_id |-> session_id,
                                         returned |-> done.returned,
                                         pointed |-> /\ builders.current[b] # <<>>
                                                     /\ builders.current[b][1].session_id
                                                            = session_id,
                                         cleared |-> /\ builders.current[b] # <<>>
                                                     /\ done.current = <<>>]>>]
    /\ UNCHANGED next_session_id
    /\ BuildersFrame

NextBuilders ==
    \/ \E b \in Builders, session_id \in NamedSessions,
          read_ok \in BOOLEAN, write_ok \in BOOLEAN, retry_ok \in BOOLEAN :
            BuilderTurn(b, session_id, read_ok, write_ok, retry_ok)
    \/ \E b \in Builders, session_id \in NamedSessions \ {NoSession}, read_ok \in BOOLEAN :
            BuilderLoadSession(b, session_id, read_ok)
    \/ \E b \in Builders, session_id \in NamedSessions \ {NoSession}, write_ok \in BOOLEAN :
            BuilderDeleteSession(b, session_id, write_ok)

SpecBuilders ==
    InitBuildersSpec /\ [][NextBuilders]_vars

(***************************************************************************)
(* ui/streamlit_app.py: one browser session of the Streamlit UI.  It keeps *)
(* a ChatbotGraphBuilder of its own in st.session_state.chatbot (here      *)
(* current_session is that builder's pointer) and session_id, messages and *)
(* current_session_title beside it.                                        *)
(***************************************************************************)
MaxUiSteps == 4

TXT_NEW_CHAT ==
    <<"N", "e", "w", " ", "C", "h", "a", "t">>

\* call_chatbot_api's answer to an exception.
PFX_PROCESSING ==
    <<"L", "o", "i", " ", "x", "u", " ", "l", "y", ":", " ">>

\* The row of a session in the table: <<>> when there is none.
RowOf(table, session_id) ==
    IF session_id \in DOMAIN table THEN <<table[session_id]>> ELSE <<>>

InitUiSpec ==
    /\ InitTurn
    /\ current_session = <<>>
    /\ database = StoredDatabase
    /\ clock = 0
    /\ InitHistory
    /\ InitStore
    /\ InitSearch
    /\ InitApi
    /\ InitCli
    /\ InitFunctions
    /\ analyze_call = [result |-> <<>>]
    /\ weather_call = [result |-> <<>>]
    /\ state_call = [result |-> <<>>]
    /\ process = [result |-> <<>>]
    /\ builders = [result |-> <<>>]
    /\ ui = [session_id |-> NoSession, messages |-> <<>>,
             current_session_title |-> TXT_NEW_CHAT, left |-> <<>>, steps |-> 0,
             result |-> <<>>]

UiFrame ==
    /\ UNCHANGED <<pc, call, state, turns, outcome, turn_log, graph_built>>
    /\ UNCHANGED <<clock, history_vars, store_vars, search_vars>>
    /\ UNCHANGED <<api_vars, cli_vars, function_vars,
                   analyze_call, weather_call, state_call, process, builders>>

\* main on a prompt: the user message is shown, call_chatbot_api runs the
\* turn with st.session_state.session_id and takes the session id and the
\* title of the answer; an exception leaving the turn is answered with an
\* error text.  The answer is shown.
UiPrompt(read_ok, write_ok, retry_ok) ==
    /\ ui.steps < MaxUiSteps
    /\ LET done == process_query_with_history(current_session, database,
                       next_session_id, Q_WEATHER, ui.session_id, RESP_ANSWER, clock,
                       read_ok, write_ok, retry_ok)
           answered == ~done.raised
           minimal == answered /\ done.current[1].messages[Len(done.current[1].messages)].content
                                      # RESP_ANSWER
       IN  /\ current_session' = done.current
           /\ database' = done.database
           /\ next_session_id' = done.next_id
           /\ ui' = [session_id |-> IF answered THEN done.session_id ELSE ui.session_id,
                     messages |-> ui.messages \o
                                  <<[content |-> Q_WEATHER, is_user |-> TRUE],
                                    [content |-> IF ~answered THEN PFX_PROCESSING \o MSG_TIMEOUT
                                                 ELSE IF minimal THEN PFX_SORRY \o MSG_TIMEOUT
                                                 ELSE RESP_ANSWER,
                                     is_user |-> FALSE]>>,
                     current_session_title |->
                         IF answered /\ ~minimal THEN done.current[1].title
                         ELSE ui.current_session_title,
                     left |-> <<>>,
                     steps |-> ui.steps + 1,
                     result |-> <<[op |-> "prompt", raised |-> done.raised,
                                   recorded |-> done.session_id,
                                   after_new_chat |-> ui.left]>>]
    /\ UiFrame

\* The New Chat button of render_sidebar.  left keeps which session was
\* active and what its row was.
UiNewChat ==
    /\ ui.steps < MaxUiSteps
    /\ ui' = [session_id |-> NoSession, messages |-> <<>>,
              current_session_title |-> TXT_NEW_CHAT,
              left |-> IF ui.session_id = NoSession THEN <<>>
                       ELSE <<[session_id |-> ui.session_id,
                               row |-> RowOf(database, ui.session_id)]>>,
              steps |-> ui.steps + 1,
              result |-> <<[op |-> "new_chat"]>>]
    /\ UNCHANGED <<current_session, database, next_session_id>>
    /\ UiFrame

\* A session button of the chat history: chatbot.load_session, and on
\* success the id, the title and the messages of the session.
UiLoadSession(session_id, read_ok) ==
    /\ ui.steps < MaxUiSteps
    /\ session_id \in DOMAIN database
    /\ LET done == builder_load_session(current_session, database, session_id, read_ok)
       IN  /\ current_session' = done.current
           /\ ui' = IF done.returned
                    THEN [session_id |-> session_id,
                          messages |-> [i \in 1..Len(done.current[1].messages) |->
                                           [content |-> done.current[1].messages[i].content,
                                            is_user |-> done.current[1].messages[i].is_user]],
                          current_session_title |-> database[session_id].title,
                          left |-> <<>>,
                          steps |-> ui.steps + 1,
                          result |-> <<[op |-> "load_session", returned |-> TRUE]>>]
                    ELSE [ui EXCEPT !.steps = @ + 1,
                                    !.result = <<[op |-> "load_session",
                                                  returned |-> FALSE]>>]
    /\ UNCHANGED <<database, next_session_id>>
    /\ UiFrame

\* The delete button of a session of the chat history.
UiDeleteSession(session_id, write_ok) ==
    /\ ui.steps < MaxUiSteps
    /\ session_id \in DOMAIN database
    /\ LET done == builder_delete_session(current_session, database, session_id, write_ok)
       IN  /\ current_session' = done.current
           /\ database' = done.database
           /\ ui' = [ui EXCEPT !.steps = @ + 1,
                               !.result = <<[op |-> "delete_session",
                                             returned |-> done.returned]>>]
    /\ UNCHANGED next_session_id
    /\ UiFrame

\* The Clear Current Chat button.
UiClearCurrentChat ==
    /\ ui.steps < MaxUiSteps
    /\ ui' = [ui EXCEPT !.messages = <<>>, !.steps = @ + 1,
                        !.result = <<[op |-> "clear_current_chat"]>>]
    /\ UNCHANGED <<current_session, database, next_session_id>>
    /\ UiFrame

NextUi ==
    \/ \E read_ok \in BOOLEAN, write_ok \in BOOLEAN, retry_ok \in BOOLEAN :
         UiPrompt(read_ok, write_ok, retry_ok)
    \/ UiNewChat
    \/ \E session_id \in NamedSessions \ {NoSession}, read_ok \in BOOLEAN :
         UiLoadSession(session_id, read_ok)
    \/ \E session_id \in NamedSessions \ {NoSession}, write_ok \in BOOLEAN :
         UiDeleteSession(session_id, write_ok)
    \/ UiClearCurrentChat

SpecUi ==
    InitUiSpec /\ [][NextUi]_vars


(***************************************************************************)
(* api/routes.py: POST /chat, POST /ingest with its background task, and   *)
(* GET /ingest/status, over the module-level chatbot and data ingester.    *)
(***************************************************************************)
\* Requests answered in one behaviour.
MaxRequests == 2

PFX_CHAT_ERROR ==
    <<"L", "o", "i", " ", "x", "u", " ", "l", "y", " ", "t", "i", "n", " ", "n", "h", "a", "n", ":", " ">>
MSG_COROUTINE_GET ==
    <<"'", "c", "o", "r", "o", "u", "t", "i", "n", "e", "'", " ", "o", "b", "j", "e", "c", "t", " ", "h", "a", "s", " ", "n", "o", " ", "a", "t", "t", "r", "i", "b", "u", "t", "e", " ", "'", "g", "e", "t", "'">>
MSG_RESPONSE_NOT_STR ==
    <<"r", "e", "s", "p", "o", "n", "s", "e", ":", " ", "s", "t", "r", " ", "t", "y", "p", "e", " ", "e", "x", "p", "e", "c", "t", "e", "d">>
MSG_INGESTION_STARTED ==
    <<"D", "a", "t", "a", " ", "i", "n", "g", "e", "s", "t", "i", "o", "n", " ", "s", "t", "a", "r", "t", "e", "d", " ", "i", "n", " ", "b", "a", "c", "k", "g", "r", "o", "u", "n", "d">>

\* What awaiting process_query would give for a message: an answered turn,
\* a turn cut short after intent analysis (no response set), and the
\* system_error state.
ProcessQueryRuns ==
    {[response |-> <<RESP_ANSWER>>, intent |-> "document_search", confidence |-> 90,
      response_type |-> "document_search", succeeded |-> TRUE],
     [response |-> <<>>, intent |-> "unknown", confidence |-> 0,
      response_type |-> NoneVal, succeeded |-> FALSE],
     [response |-> <<RESP_SYSTEM_ERROR>>, intent |-> "unknown", confidence |-> 0,
      response_type |-> "system_error", succeeded |-> FALSE]}

ChatRequests ==
    [message : {Q_WEATHER, Q_FOLLOWUP}, session_id : {NoneVal, "s1"}]

\* Calling an async def without await runs nothing of its body and gives a
\* coroutine object.
Coroutine(body) ==
    [coroutine |-> <<body>>]

IsCoroutine(value) ==
    "coroutine" \in DOMAIN value

HTTPException(status_code, detail) ==
    [status_code |-> status_code, detail |-> detail]

\* ChatResponse(...): response is a required str, so None is refused.
ChatResponse(result, session_id) ==
    IF result.response = <<>>
    THEN HTTPException(500, PFX_CHAT_ERROR \o MSG_RESPONSE_NOT_STR)
    ELSE [status_code |-> 200, response |-> result.response[1],
          intent |-> result.intent, confidence |-> result.confidence,
          response_type |-> result.response_type, session_id |-> session_id]

\* chat: result is what the call chatbot.process_query(...) gives, which is
\* not awaited; result.get on a coroutine object raises AttributeError, and
\* the except branch answers 500.
chat(request, run) ==
    LET result == Coroutine(run)
    IN  IF IsCoroutine(result)
        THEN HTTPException(500, PFX_CHAT_ERROR \o MSG_COROUTINE_GET)
        ELSE ChatResponse(result, request.session_id)

IngestionResponse(success, documents_processed, message) ==
    [status_code |-> 200, success |-> success,
     documents_processed |-> documents_processed, message |-> message]

\* ingest_data without the task: the answer alone.
ingest_data_without_task(clear_existing, tasks) ==
    [response |-> IngestionResponse(TRUE, 0, MSG_INGESTION_STARTED),
     tasks |-> tasks]

\* ingest_data: run_ingestion is added to the background tasks and the
\* answer is built at once.
ingest_data(clear_existing, tasks) ==
    [response |-> IngestionResponse(TRUE, 0, MSG_INGESTION_STARTED),
     tasks |-> Append(tasks, [clear_existing |-> clear_existing])]

\* get_collection_stats: the number of chunks of the index in memory.
get_collection_stats(store) ==
    [document_count |-> IF store.memory = <<>> THEN 0 ELSE Len(store.memory[1])]

\* get_ingestion_status
get_ingestion_status(store) ==
    [status_code |-> 200, success |-> TRUE, status |-> get_collection_stats(store)]

InitApiSpec ==
    /\ InitTurn
    /\ current_session = <<>>
    /\ database = EmptyDatabase
    /\ clock = 0
    /\ InitHistory
    /\ InitStore
    /\ InitSearch
    /\ InitExt

\* An answer as the log keeps it: with the request, what awaiting the
\* pipeline would have given (chat only), and the tasks pending and the
\* jobs done when it was sent.
ApiEntry(route, request, run, answer, tasks) ==
    [route |-> route, request |-> request, run |-> run, answer |-> answer,
     pending |-> Len(tasks), jobs_done |-> store_calls]

\* POST /chat
Chat(request, run) ==
    /\ Len(api_log) < MaxRequests
    /\ api_log' = Append(api_log, ApiEntry("chat", request, <<run>>, chat(request, run),
                                         background_tasks))
    /\ UNCHANGED <<background_tasks, cli_vars, function_vars, other_vars>>
    /\ UNCHANGED <<turn_vars, session_vars, history_vars, store_vars, search_vars>>

\* POST /ingest: the answer is sent with the task still to run.
IngestData(clear_existing) ==
    /\ Len(api_log) < MaxRequests
    /\ LET done == ingest_data(clear_existing, background_tasks)
       IN  /\ api_log' = Append(api_log, ApiEntry("ingest", [clear_existing |-> clear_existing],
                                                  <<>>, done.response, done.tasks))
           /\ background_tasks' = done.tasks
    /\ UNCHANGED <<cli_vars, function_vars, other_vars>>
    /\ UNCHANGED <<turn_vars, session_vars, history_vars, store_vars, search_vars>>

\* run_ingestion, after the answer was sent: the oldest task runs
\* ingest_from_directory; what it raises is logged and dropped, and so is
\* the count it returns.
RunIngestion(path, shape, outcomes) ==
    /\ background_tasks # <<>>
    /\ store_calls' = store_calls + 1
    /\ LET task == Head(background_tasks)
           done == ingest_from_directory(TheStore, path, task.clear_existing,
                                         InputDocuments(shape, store_calls'), outcomes)
       IN  /\ memory_index' = done.store.memory
           /\ disk_index' = done.store.files
           /\ use_vietnamese_model' = done.store.use_vietnamese_model
           /\ store_call' = [op |-> "run_ingestion", path |-> path,
                             clear_existing |-> task.clear_existing, shape |-> shape,
                             outcomes |-> outcomes, raised |-> done.raised,
                             returned |-> done.returned]
    /\ background_tasks' = Tail(background_tasks)
    /\ UNCHANGED <<api_log, cli_vars, function_vars, other_vars>>
    /\ UNCHANGED <<turn_vars, session_vars, history_vars, search_vars>>

\* GET /ingest/status
GetIngestionStatus ==
    /\ Len(api_log) < MaxRequests
    /\ api_log' = Append(api_log, ApiEntry("status", [clear_existing |-> FALSE], <<>>,
                                           get_ingestion_status(TheStore),
                                           background_tasks))
    /\ UNCHANGED <<background_tasks, cli_vars, function_vars, other_vars>>
    /\ UNCHANGED <<turn_vars, session_vars, history_vars, store_vars, search_vars>>

NextApi ==
    \/ \E request \in ChatRequests, run \in ProcessQueryRuns : Chat(request, run)
    \/ \E clear_existing \in BOOLEAN : IngestData(clear_existing)
    \/ \E path \in {"missing", "file"} :
         RunIngestion(path, [count |-> 0, content |-> "plain"], <<>>)
    \/ \E shape \in IngestShapes :
         \E outcomes \in OutcomesFor(InputDocuments(shape, 0)) :
           RunIngestion("directory", shape, outcomes)
    \/ GetIngestionStatus

SpecApi ==
    InitApiSpec /\ [][NextApi]_vars

(***************************************************************************)
(* main/run_ingest.py: one run of the ingestion command line is a process  *)
(* of its own: main builds a DataIngester over the index files, and in     *)
(* directory mode with --clear waits for the answer to its prompt.         *)
(***************************************************************************)
\* Runs of the command line in one behaviour.
MaxCliRuns == 2

\* What the user can type at the prompt.
PromptAnswers ==
    {<<"y">>, <<"Y">>, <<" ", "y", " ">>, <<>>, <<"n">>, <<"y", "e", "s">>}

\* What --file can name: a missing file, a file that is no PDF by its name,
\* a PDF the processor refuses, a PDF.
FileKinds ==
    {"missing", "not_pdf", "invalid", "pdf"}

CliArgs ==
    [status : BOOLEAN, file : {NoneVal} \cup FileKinds, clear : BOOLEAN,
     data_path : PathKinds, pdf_files : {0, 2}]

\* The answer is taken for a yes whatever else it holds but "n".
confirmed_unless_no(answer) ==
    Lower(Strip(answer)) # <<"n">>

\* confirm = input(...).strip().lower(); confirm == 'y'
confirmed(answer) ==
    Lower(Strip(answer)) = <<"y">>

\* The mode main dispatches on: --status before --file before the directory.
mode_of(args) ==
    IF args.status THEN "status"
    ELSE IF args.file # NoneVal THEN "file"
    ELSE "directory"

\* The checks of ingest_directory before the prompt: the exit code of
\* sys.exit, or <<>> when the run goes on.
directory_checks(args) ==
    IF args.data_path = "missing" THEN <<1>>
    ELSE IF args.data_path # "directory" THEN <<1>>
    ELSE IF args.pdf_files = 0 THEN <<1>>
    ELSE <<>>

\* ingest_single_file of the command line over DataIngester.ingest_single_file:
\* the store it leaves and the exit code of the run.
ingest_single_file(store, file, documents, outcomes) ==
    LET base == [memory |-> store.memory, files |-> store.files,
                 use_vietnamese_model |-> store.use_vietnamese_model, ids |-> <<>>]
    IN  IF file \in {"missing", "not_pdf", "invalid"}
        THEN [store |-> base, exit_code |-> 1]
        ELSE [store |-> add_documents(base, documents, outcomes), exit_code |-> 0]

\* The ingestion of ingest_directory after the prompt: what
\* ingest_from_directory raises is raised again and main exits with 1.
ingest_directory(store, clear_existing, documents, outcomes) ==
    LET done == ingest_from_directory(store, "directory", clear_existing, documents, outcomes)
    IN  [store |-> done.store,
         exit_code |-> IF done.raised = NoneVal THEN 0 ELSE 1]

InitCliSpec ==
    /\ InitTurn
    /\ current_session = <<>>
    /\ database = EmptyDatabase
    /\ clock = 0
    /\ InitHistory
    /\ InitStore
    /\ InitSearch
    /\ InitApi
    /\ cli = [pc |-> "none", runs |-> 0]
    /\ InitFunctions
    /\ InitOther

CliRuns ==
    cli.runs

Exited(args, exit_code, answer) ==
    [pc |-> "exited", runs |-> CliRuns + 1, mode |-> mode_of(args), clear |-> args.clear,
     exit_code |-> exit_code, answer |-> answer]

\* main, up to the end of the run or to the prompt.
CliMain(args, load_ok, shape, outcomes) ==
    /\ cli.pc \in {"none", "exited"}
    /\ CliRuns < MaxCliRuns
    /\ LET loaded == [memory |-> create_or_load_vector_store(disk_index, load_ok),
                      files |-> disk_index, use_vietnamese_model |-> TRUE]
           documents == InputDocuments(shape, store_calls + 1)
           checks == directory_checks(args)
           single == ingest_single_file(loaded, args.file, documents, outcomes)
           whole == ingest_directory(loaded, FALSE, documents, outcomes)
           after ==
               IF mode_of(args) = "status" THEN [store |-> loaded, exit_code |-> 0]
               ELSE IF mode_of(args) = "file" THEN single
               ELSE IF checks # <<>> THEN [store |-> loaded, exit_code |-> checks[1]]
               ELSE IF args.clear THEN [store |-> loaded, exit_code |-> 0]
               ELSE whole
           prompts == mode_of(args) = "directory" /\ checks = <<>> /\ args.clear
       IN  /\ memory_index' = after.store.memory
           /\ disk_index' = after.store.files
           /\ use_vietnamese_model' = after.store.use_vietnamese_model
           /\ cli' = IF prompts
                     THEN [pc |-> "prompt", runs |-> CliRuns, mode |-> "directory",
                           clear |-> TRUE]
                     ELSE Exited(args, after.exit_code, <<>>)
           /\ store_call' = [op |-> "main", mode |-> mode_of(args)]
    /\ store_calls' = store_calls + 1
    /\ UNCHANGED <<api_vars, function_vars, other_vars>>
    /\ UNCHANGED <<turn_vars, session_vars, history_vars, search_vars>>

\* The user answers the prompt, and ingest_directory and main run to their
\* end.
CliAnswer(answer, shape, outcomes) ==
    /\ cli.pc = "prompt"
    /\ LET documents == InputDocuments(shape, store_calls + 1)
           whole == ingest_directory(TheStore, TRUE, documents, outcomes)
           after == IF confirmed(answer) THEN whole
                    ELSE [store |-> TheStore, exit_code |-> 0]
       IN  /\ memory_index' = after.store.memory
           /\ disk_index' = after.store.files
           /\ use_vietnamese_model' = after.store.use_vietnamese_model
           /\ cli' = [pc |-> "exited", runs |-> CliRuns + 1, mode |-> "directory",
                      clear |-> TRUE, exit_code |-> after.exit_code, answer |-> answer]
           /\ store_call' = [op |-> "answer", mode |-> "directory"]
    /\ store_calls' = store_calls + 1
    /\ UNCHANGED <<api_vars, function_vars, other_vars>>
    /\ UNCHANGED <<turn_vars, session_vars, history_vars, search_vars>>

NextCli ==
    \/ \E args \in CliArgs, load_ok \in BOOLEAN, shape \in IngestShapes :
         \E outcomes \in OutcomesFor(InputDocuments(shape, 0)) :
           CliMain(args, load_ok, shape, outcomes)
    \/ \E answer \in PromptAnswers, shape \in IngestShapes :
         \E outcomes \in OutcomesFor(InputDocuments(shape, 0)) :
           CliAnswer(answer, shape, outcomes)

SpecCli ==
    InitCliSpec /\ [][NextCli]_vars

(***************************************************************************)
(* chat/history_manager.py: clear_old_sessions.  A date is a month and a   *)
(* day of a year of 365 days; a time is counted in half days from the      *)
(* midnight that starts 1 January, so that 2 * n is the midnight starting  *)
(* day n + 1 of the year and times of the year before are negative.        *)
(***************************************************************************)
DaysInMonth ==
    <<31, 28, 31, 30, 31, 30, 31, 31, 30, 31, 30, 31>>

RECURSIVE DaysBefore(_)
DaysBefore(month) ==
    IF month = 1 THEN 0 ELSE DaysBefore(month - 1) + DaysInMonth[month - 1]

\* The midnight that starts a date.
Midnight(date) ==
    2 * (DaysBefore(date.month) + date.day - 1)

\* datetime.replace(day=...): <<>> stands for the ValueError of a day the
\* month does not have.
replace_day(date, day) ==
    IF day < 1 \/ day > DaysInMonth[date.month] THEN <<>>
    ELSE <<[month |-> date.month, day |-> day]>>

\* clear_old_sessions: the rows left and the number returned; the
\* ValueError is caught, logged and answered with 0.
clear_old_sessions(rows, today, days) ==
    LET cutoff_date == replace_day(today, today.day - days)
    IN  IF cutoff_date = <<>>
        THEN [rows |-> rows, returned |-> 0]
        ELSE LET deleted == {row \in rows : row.updated_at < Midnight(cutoff_date[1])}
             IN  [rows |-> rows \ deleted, returned |-> Cardinality(deleted)]

\* The dates of the calls, the ages asked for, and the rows of the table:
\* for each call, sessions updated some half days before its midnight.
CallDates ==
    {[month |-> 1, day |-> 1], [month |-> 1, day |-> 31], [month |-> 3, day |-> 1],
     [month |-> 3, day |-> 15], [month |-> 3, day |-> 31], [month |-> 12, day |-> 31]}

RetentionDays ==
    {0, 1, 7, 30}

RowAges ==
    {0, 1, 2, 14, 60}

RetentionCalls ==
    {[today |-> today, days |-> days,
      rows |-> {[session_id |-> age, updated_at |-> Midnight(today) - age] : age \in ages},
      result |-> <<>>] :
        today \in CallDates, days \in RetentionDays, ages \in SUBSET RowAges}

InitRetentionSpec ==
    /\ InitTurn
    /\ current_session = <<>>
    /\ database = EmptyDatabase
    /\ clock = 0
    /\ InitHistory
    /\ InitStore
    /\ InitSearch
    /\ InitApi
    /\ InitCli
    /\ InitOther
    /\ intent_call = [result |-> <<>>]
    /\ advisor_call = [result |-> <<>>]
    /\ filter_call = [result |-> <<>>]
    /\ retention \in RetentionCalls

ClearOldSessions ==
    /\ retention.result = <<>>
    /\ retention' = [retention EXCEPT !.result =
                        <<clear_old_sessions(retention.rows, retention.today,
                                             retention.days)>>]
    /\ UNCHANGED <<intent_call, advisor_call, filter_call, api_vars, cli_vars, other_vars>>
    /\ UNCHANGED <<turn_vars, session_vars, history_vars, store_vars, search_vars>>

NextRetention ==
    ClearOldSessions

SpecRetention ==
    InitRetentionSpec /\ [][NextRetention]_vars

(***************************************************************************)
(* agents/intent_analyzer.py: _extract_intent_patterns.  A character of a  *)
(* query is one element of a sequence; a Vietnamese letter is written as   *)
(* its base letter followed by the VNI digits of its marks (6 8 7 for the  *)
(* letter shape, 1 2 3 4 5 for the tone, d9 for the barred d).  A pattern  *)
(* is a list of groups with .* between them and \b around each; an         *)
(* alternative of a group is a chain of literal pieces with .* between.    *)
(***************************************************************************)
\* The first tier; anchored stands for a leading ^ in place of the leading \b.
pure_weather_patterns ==
    <<[anchored |-> TRUE, groups |-> <<{<<<<"t", "h", "o72", "i", " ", "t", "i", "e61", "t">>>>, <<<<"w", "e", "a", "t", "h", "e", "r">>>>, <<<<"d", "u75", " ", "b", "a1", "o">>>>},
        {<<<<"h", "o6", "m", " ", "n", "a", "y">>>>, <<<<"n", "g", "a2", "y">>>>, <<<<"h", "i", "e65", "n", " ", "t", "a5", "i">>>>, <<<<"b", "a6", "y", " ", "g", "i", "o72">>>>}>>],
      [anchored |-> FALSE, groups |-> <<{<<<<"t", "h", "o72", "i", " ", "t", "i", "e61", "t">>>>, <<<<"w", "e", "a", "t", "h", "e", "r">>>>},
        {<<<<"o73">>>>, <<<<"t", "a5", "i">>>>, <<<<"t", "r", "o", "n", "g">>>>},
        {<<<<"t", "h", "a2", "n", "h", " ", "p", "h", "o61">>>>, <<<<"t", "i3", "n", "h">>>>, <<<<"k", "h", "u", " ", "v", "u75", "c">>>>}>>],
      [anchored |-> TRUE, groups |-> <<{<<<<"h", "o6", "m", " ", "n", "a", "y">>>>, <<<<"n", "g", "a2", "y", " ", "h", "o6", "m", " ", "n", "a", "y">>>>},
        {<<<<"t", "h", "o72", "i", " ", "t", "i", "e61", "t">>>>, <<<<"w", "e", "a", "t", "h", "e", "r">>>>, <<<<"t", "r", "o72", "i">>>>},
        {<<<<"r", "a", " ", "s", "a", "o">>>>, <<<<"n", "h", "u7", " ", "t", "h", "e61", " ", "n", "a2", "o">>>>, <<<<"t", "h", "e61", " ", "n", "a2", "o">>>>}>>],
      [anchored |-> TRUE, groups |-> <<{<<<<"t", "r", "o72", "i">>>>, <<<<"t", "h", "o72", "i", " ", "t", "i", "e61", "t">>>>},
        {<<<<"r", "a", " ", "s", "a", "o">>>>, <<<<"n", "h", "u7", " ", "t", "h", "e61", " ", "n", "a2", "o">>>>, <<<<"t", "h", "e61", " ", "n", "a2", "o">>>>}>>],
      [anchored |-> FALSE, groups |-> <<{<<<<"n", "h", "i", "e65", "t", " ", "d9", "o65">>>>, <<<<"d9", "o65", " ", "a63", "m">>>>, <<<<"m", "u7", "a">>>>, <<<<"n", "a81", "n", "g">>>>, <<<<"g", "i", "o1">>>>},
        {<<<<"h", "o6", "m", " ", "n", "a", "y">>>>, <<<<"h", "i", "e65", "n", " ", "t", "a5", "i">>>>, <<<<"b", "a6", "y", " ", "g", "i", "o72">>>>}>>],
      [anchored |-> TRUE, groups |-> <<{<<<<"c", "o1", " ", "m", "u7", "a">>>>, <<<<"c", "o1", " ", "n", "a81", "n", "g">>>>, <<<<"c", "o1", " ", "g", "i", "o1">>>>}>>],
      [anchored |-> FALSE, groups |-> <<{<<<<"d", "u75", " ", "b", "a1", "o", " ", "t", "h", "o72", "i", " ", "t", "i", "e61", "t">>>>, <<<<"w", "e", "a", "t", "h", "e", "r", " ", "f", "o", "r", "e", "c", "a", "s", "t">>>>}>>]>>

\* The keywords that keep a query out of the first tier.
agriculture_keywords ==
    {<<"t", "r", "o62", "n", "g">>,
     <<"c", "a2", " ", "p", "h", "e6">>,
     <<"l", "u1", "a">>,
     <<"k", "h", "o", "a", "i">>,
     <<"h", "o62", " ", "t", "i", "e6", "u">>,
     <<"n", "o6", "n", "g", " ", "n", "g", "h", "i", "e65", "p">>,
     <<"c", "a6", "y", " ", "t", "r", "o62", "n", "g">>,
     <<"t", "h", "u", " ", "h", "o", "a5", "c", "h">>,
     <<"g", "i", "e", "o">>,
     <<"p", "h", "u", "n", " ", "t", "h", "u", "o61", "c">>,
     <<"b", "o1", "n", " ", "p", "h", "a6", "n">>}

\* The second tier.
weather_agriculture_patterns ==
    <<[anchored |-> FALSE, groups |-> <<{<<<<"t", "h", "o72", "i", " ", "t", "i", "e61", "t">>>>, <<<<"w", "e", "a", "t", "h", "e", "r">>>>, <<<<"d", "u75", " ", "b", "a1", "o">>>>},
        {<<<<"t", "r", "o62", "n", "g">>>>, <<<<"c", "a2", " ", "p", "h", "e6">>>>, <<<<"l", "u1", "a">>>>, <<<<"k", "h", "o", "a", "i">>>>, <<<<"h", "o62", " ", "t", "i", "e6", "u">>>>, <<<<"n", "o6", "n", "g", " ", "n", "g", "h", "i", "e65", "p">>>>}>>],
      [anchored |-> FALSE, groups |-> <<{<<<<"t", "r", "o62", "n", "g">>>>, <<<<"c", "a2", " ", "p", "h", "e6">>>>, <<<<"l", "u1", "a">>>>, <<<<"k", "h", "o", "a", "i">>>>, <<<<"h", "o62", " ", "t", "i", "e6", "u">>>>},
        {<<<<"t", "h", "o72", "i", " ", "t", "i", "e61", "t">>>>, <<<<"w", "e", "a", "t", "h", "e", "r">>>>, <<<<"d", "u75", " ", "b", "a1", "o">>>>, <<<<"m", "u7", "a">>>>, <<<<"n", "a81", "n", "g">>>>, <<<<"g", "i", "o1">>>>}>>],
      [anchored |-> FALSE, groups |-> <<{<<<<"n", "e6", "n", " ", "t", "r", "o62", "n", "g">>>>, <<<<"c", "o1", " ", "n", "e6", "n">>>>},
        {<<<<"t", "h", "o72", "i", " ", "t", "i", "e61", "t">>>>, <<<<"m", "u7", "a">>>>, <<<<"n", "a81", "n", "g">>>>}>>],
      [anchored |-> FALSE, groups |-> <<{<<<<"t", "h", "o72", "i", " ", "t", "i", "e61", "t">>, <<"c", "o1">>, <<"p", "h", "u2", " ", "h", "o75", "p">>>>, <<<<"p", "h", "u2", " ", "h", "o75", "p">>, <<"t", "h", "o72", "i", " ", "t", "i", "e61", "t">>>>}>>],
      [anchored |-> FALSE, groups |-> <<{<<<<"d", "u75", " ", "b", "a1", "o">>, <<"t", "a1", "c", " ", "d9", "o65", "n", "g">>>>, <<<<"a3", "n", "h", " ", "h", "u7", "o73", "n", "g">>, <<"t", "h", "o72", "i", " ", "t", "i", "e61", "t">>>>}>>],
      [anchored |-> FALSE, groups |-> <<{<<<<"n", "h", "i", "e65", "t", " ", "d9", "o65">>>>, <<<<"d9", "o65", " ", "a63", "m">>>>, <<<<"l", "u7", "o75", "n", "g", " ", "m", "u7", "a">>>>},
        {<<<<"c", "a2", " ", "p", "h", "e6">>>>, <<<<"l", "u1", "a">>>>, <<<<"t", "r", "o62", "n", "g", " ", "t", "r", "o5", "t">>>>}>>],
      [anchored |-> FALSE, groups |-> <<{<<<<"m", "u7", "a">>>>, <<<<"n", "a81", "n", "g">>>>, <<<<"g", "i", "o1">>>>},
        {<<<<"c", "o1", " ", "n", "e6", "n">>>>, <<<<"n", "e6", "n">>>>},
        {<<<<"t", "r", "o62", "n", "g">>>>, <<<<"p", "h", "u", "n", " ", "t", "h", "u", "o61", "c">>>>, <<<<"b", "o1", "n", " ", "p", "h", "a6", "n">>>>, <<<<"t", "h", "u", " ", "h", "o", "a5", "c", "h">>>>}>>]>>

\* The third tier: each pattern found adds 0.3.
agriculture_patterns ==
    <<[anchored |-> FALSE, groups |-> <<{<<<<"c", "a2", " ", "p", "h", "e6">>>>, <<<<"c", "a", "f", "e">>>>, <<<<"c", "o", "f", "f", "e", "e">>>>}>>],
      [anchored |-> FALSE, groups |-> <<{<<<<"t", "r", "o62", "n", "g">>>>, <<<<"g", "i", "e", "o">>>>, <<<<"t", "r", "o62", "n", "g", " ", "t", "r", "o5", "t">>>>, <<<<"c", "a", "n", "h", " ", "t", "a1", "c">>>>}>>],
      [anchored |-> FALSE, groups |-> <<{<<<<"s", "a6", "u", " ", "b", "e65", "n", "h">>>>, <<<<"c", "o6", "n", " ", "t", "r", "u2", "n", "g">>>>, <<<<"b", "e65", "n", "h">>>>, <<<<"s", "a6", "u">>>>, <<<<"m", "o5", "t">>>>}>>],
      [anchored |-> FALSE, groups |-> <<{<<<<"p", "h", "a6", "n", " ", "b", "o1", "n">>>>, <<<<"t", "h", "u", "o61", "c">>>>, <<<<"t", "h", "u", "o61", "c", " ", "t", "r", "u72", " ", "s", "a6", "u">>>>, <<<<"d", "i", "n", "h", " ", "d", "u7", "o74", "n", "g">>>>}>>],
      [anchored |-> FALSE, groups |-> <<{<<<<"n", "o6", "n", "g", " ", "n", "g", "h", "i", "e65", "p">>>>, <<<<"n", "o6", "n", "g", " ", "d", "a6", "n">>>>, <<<<"l", "a2", "m", " ", "r", "u", "o65", "n", "g">>>>}>>],
      [anchored |-> FALSE, groups |-> <<{<<<<"c", "a6", "y", " ", "t", "r", "o62", "n", "g">>>>, <<<<"l", "u1", "a">>>>, <<<<"n", "g", "o6">>>>, <<<<"k", "h", "o", "a", "i">>>>}>>],
      [anchored |-> FALSE, groups |-> <<{<<<<"t", "u7", "o71", "i">>>>, <<<<"t", "u7", "o71", "i", " ", "n", "u7", "o71", "c">>>>, <<<<"c", "h", "a8", "m", " ", "s", "o1", "c">>>>}>>],
      [anchored |-> FALSE, groups |-> <<{<<<<"t", "h", "u", " ", "h", "o", "a5", "c", "h">>>>, <<<<"m", "u2", "a", " ", "m", "a2", "n", "g">>>>, <<<<"n", "a8", "n", "g", " ", "s", "u", "a61", "t">>>>}>>],
      [anchored |-> FALSE, groups |-> <<{<<<<"d9", "a61", "t">>>>, <<<<"d9", "a61", "t", " ", "t", "r", "o62", "n", "g">>>>, <<<<"t", "h", "o63", " ", "n", "h", "u7", "o74", "n", "g">>>>}>>]>>

\* The fourth tier, but for its last pattern, a question mark at the end.
search_patterns ==
    <<[anchored |-> FALSE, groups |-> <<{<<<<"t", "i2", "m">>>>, <<<<"s", "e", "a", "r", "c", "h">>>>, <<<<"t", "r", "a", " ", "c", "u71", "u">>>>, <<<<"t", "i2", "m", " ", "k", "i", "e61", "m">>>>, <<<<"c", "h", "o", " ", "t", "o6", "i", " ", "b", "i", "e61", "t">>>>, <<<<"h", "o3", "i", " ", "v", "e62">>>>}>>],
      [anchored |-> FALSE, groups |-> <<{<<<<"t", "h", "o6", "n", "g", " ", "t", "i", "n">>>>, <<<<"t", "a2", "i", " ", "l", "i", "e65", "u">>>>, <<<<"d", "o", "c", "u", "m", "e", "n", "t">>>>, <<<<"f", "i", "l", "e">>>>, <<<<"p", "d", "f">>>>}>>],
      [anchored |-> FALSE, groups |-> <<{<<<<"l", "a2", " ", "g", "i2">>>>, <<<<"n", "h", "u7", " ", "t", "h", "e61", " ", "n", "a2", "o">>>>, <<<<"t", "a5", "i", " ", "s", "a", "o">>>>, <<<<"k", "h", "i", " ", "n", "a2", "o">>>>, <<<<"o73", " ", "d9", "a6", "u">>>>, <<<<"l", "a2", "m", " ", "s", "a", "o">>>>}>>]>>

\* question_words
question_words ==
    {<<"g", "i2">>,
     <<"s", "a", "o">>,
     <<"n", "h", "u7", " ", "t", "h", "e61", " ", "n", "a2", "o">>,
     <<"t", "a5", "i", " ", "s", "a", "o">>,
     <<"k", "h", "i", " ", "n", "a2", "o">>,
     <<"o73", " ", "d9", "a6", "u">>,
     <<"a", "i">>,
     <<"l", "a2", "m", " ", "s", "a", "o">>,
     <<"b", "a", "o", " ", "n", "h", "i", "e6", "u">>,
     <<"r", "a", " ", "s", "a", "o">>}

\* domain_keywords
domain_keywords ==
    {<<"c", "a2", " ", "p", "h", "e6">>,
     <<"n", "o6", "n", "g", " ", "n", "g", "h", "i", "e65", "p">>,
     <<"t", "r", "o62", "n", "g", " ", "t", "r", "o5", "t">>,
     <<"s", "a3", "n", " ", "x", "u", "a61", "t">>,
     <<"q", "u", "y", " ", "t", "r", "i2", "n", "h">>,
     <<"s", "a6", "u", " ", "b", "e65", "n", "h">>,
     <<"c", "o6", "n", " ", "t", "r", "u2", "n", "g">>,
     <<"p", "h", "a6", "n", " ", "b", "o1", "n">>,
     <<"t", "h", "u", "o61", "c">>,
     <<"t", "u7", "o71", "i">>,
     <<"c", "h", "a8", "m", " ", "s", "o1", "c">>,
     <<"t", "h", "u", " ", "h", "o", "a5", "c", "h">>,
     <<"n", "a8", "n", "g", " ", "s", "u", "a61", "t">>,
     <<"d9", "a61", "t">>,
     <<"k", "h", "i1", " ", "h", "a65", "u">>,
     <<"c", "a6", "y", " ", "t", "r", "o62", "n", "g">>}

\* The phrases of the general question tier.
general_phrases ==
    {<<"n", "h", "u7", " ", "t", "h", "e61", " ", "n", "a2", "o">>,
     <<"l", "a2", " ", "g", "i2">>,
     <<"t", "a5", "i", " ", "s", "a", "o">>}

\* Characters that are not word characters for \b.
NonWordChars ==
    {" ", "?", ",", ".", "!", ":", "-"}

IsWordAt(s, i) ==
    i \in 1..Len(s) /\ s[i] \notin NonWordChars

\* \b just before position i.
Boundary(s, i) ==
    IsWordAt(s, i - 1) # IsWordAt(s, i)

PieceAt(s, piece, i) ==
    /\ i + Len(piece) - 1 <= Len(s)
    /\ SubSeq(s, i, i + Len(piece) - 1) = piece

\* The positions just after the matches of a chain that starts at i.
RECURSIVE ChainEnds(_, _, _)
ChainEnds(s, pieces, i) ==
    IF ~PieceAt(s, pieces[1], i) THEN {}
    ELSE IF Len(pieces) = 1 THEN {i + Len(pieces[1])}
    ELSE UNION {ChainEnds(s, Tail(pieces), j) : j \in (i + Len(pieces[1]))..Len(s)}

\* The groups from the k-th on are found, the k-th starting at or after
\* `from` (at the start of the string when anchored).
RECURSIVE GroupsMatch(_, _, _, _, _)
GroupsMatch(s, groups, k, from, anchored) ==
    \E alternative \in groups[k] :
        \E i \in (IF anchored THEN {1} ELSE from..Len(s)) :
            /\ anchored \/ Boundary(s, i)
            /\ \E e \in ChainEnds(s, alternative, i) :
                  /\ Boundary(s, e)
                  /\ \/ k = Len(groups)
                     \/ GroupsMatch(s, groups, k + 1, e, FALSE)

\* re.search(pattern, s) finds something
re_search(pattern, s) ==
    GroupsMatch(s, pattern.groups, 1, 1, pattern.anchored)

AnyPattern(list, s) ==
    \E n \in DOMAIN list : re_search(list[n], s)

PatternCount(list, s) ==
    Cardinality({n \in DOMAIN list : re_search(list[n], s)})

AnyWord(set, s) ==
    \E word \in set : Contains(s, word)

Min(a, b) ==
    IF a < b THEN a ELSE b

\* The score of the fourth tier, in hundredths.
search_score(query_lower) ==
    30 * PatternCount(search_patterns, query_lower)
    + (IF query_lower # <<>> /\ query_lower[Len(query_lower)] = "?" THEN 30 ELSE 0)
    + (IF AnyWord(question_words, query_lower) THEN 50 ELSE 0)
    + (IF AnyWord(domain_keywords, query_lower) THEN 40 ELSE 0)

\* The tiers after the first two.
later_tiers(query, query_lower) ==
    IF PatternCount(agriculture_patterns, query_lower) >= 1
    THEN create_intent_result("search_document",
             Min(30 * PatternCount(agriculture_patterns, query_lower), 95), <<>>)
    ELSE IF search_score(query_lower) >= 30
    THEN create_intent_result("search_document", Min(search_score(query_lower), 95), <<>>)
    ELSE IF Len(Strip(query)) > 10
            /\ (Contains(query, <<"?">>) \/ AnyWord(general_phrases, query_lower))
    THEN create_intent_result("general_question", 60, <<>>)
    ELSE create_intent_result("unknown", 10, <<>>)

\* _extract_intent_patterns with the weather-agriculture tier looked at
\* first.
extract_intent_patterns_agriculture_first(query) ==
    LET query_lower == Strip(Lower(query))
    IN  IF AnyPattern(weather_agriculture_patterns, query_lower)
        THEN create_intent_result("weather_agriculture", 90, <<>>)
        ELSE IF AnyPattern(pure_weather_patterns, query_lower)
                /\ ~AnyWord(agriculture_keywords, query_lower)
        THEN create_intent_result("weather_query", 90, <<>>)
        ELSE later_tiers(query, query_lower)

\* _extract_intent_patterns; confidence in hundredths.
extract_intent_patterns(query) ==
    LET query_lower == Strip(Lower(query))
    IN  IF AnyPattern(pure_weather_patterns, query_lower)
           /\ ~AnyWord(agriculture_keywords, query_lower)
        THEN create_intent_result("weather_query", 90, <<>>)
        ELSE IF AnyPattern(weather_agriculture_patterns, query_lower)
        THEN create_intent_result("weather_agriculture", 90, <<>>)
        ELSE later_tiers(query, query_lower)

\* The queries of the model are made of three parts.
QueryOpeners ==
    {<<>>,
     <<"t", "h", "o72", "i", " ", "t", "i", "e61", "t", " ">>,
     <<"d", "u75", " ", "b", "a1", "o", " ", "t", "h", "o72", "i", " ", "t", "i", "e61", "t", " ">>,
     <<"h", "o6", "m", " ", "n", "a", "y", " ">>,
     <<"c", "o1", " ", "n", "e6", "n", " ">>,
     <<"T", "r", "o72", "i", " ">>}

\* What a query is about.
QueryMiddles ==
    {<<>>,
     <<"t", "r", "o62", "n", "g", " ", "c", "a2", " ", "p", "h", "e6", " ">>,
     <<"l", "u1", "a", " ">>,
     <<"m", "u7", "a", " ">>,
     <<"d9", "i", " ", "c", "h", "o7", "i", " ">>,
     <<"o73", " ", "t", "i3", "n", "h", " ">>}

\* How a query ends.
QueryClosers ==
    {<<>>,
     <<"h", "o6", "m", " ", "n", "a", "y">>,
     <<"t", "h", "e61", " ", "n", "a2", "o">>,
     <<"c", "o1", " ", "p", "h", "u2", " ", "h", "o75", "p", " ", "k", "h", "o6", "n", "g", "?">>,
     <<"t", "h", "o72", "i", " ", "t", "i", "e61", "t", " ">>,
     <<"l", "a2", " ", "g", "i2">>}

IntentQueries ==
    {opener \o middle \o closer :
        opener \in QueryOpeners, middle \in QueryMiddles, closer \in QueryClosers}

InitIntentSpec ==
    /\ InitTurn
    /\ current_session = <<>>
    /\ database = EmptyDatabase
    /\ clock = 0
    /\ InitHistory
    /\ InitStore
    /\ InitSearch
    /\ InitApi
    /\ InitCli
    /\ InitOther
    /\ intent_call \in [query : IntentQueries, result : {<<>>}]
    /\ advisor_call = [result |-> <<>>]
    /\ filter_call = [result |-> <<>>]
    /\ retention = [result |-> <<>>]

ExtractIntentPatterns ==
    /\ intent_call.result = <<>>
    /\ intent_call' = [intent_call EXCEPT !.result =
                          <<extract_intent_patterns(intent_call.query)>>]
    /\ UNCHANGED <<advisor_call, filter_call, retention, api_vars, cli_vars, other_vars>>
    /\ UNCHANGED <<turn_vars, session_vars, history_vars, store_vars, search_vars>>

NextIntent ==
    ExtractIntentPatterns

SpecIntent ==
    InitIntentSpec /\ [][NextIntent]_vars

(***************************************************************************)
(* tools/agriculture_weather_advisor.py: analyze_weather_for_crop and      *)
(* _get_wind_direction_text.  Degrees are counted in hundredths of a       *)
(* degree; temperature, humidity, rainfall and wind speed in whole units.  *)
(***************************************************************************)
CROP_COFFEE == <<"c", "o", "f", "f", "e", "e">>
CROP_RICE == <<"r", "i", "c", "e">>
CROP_POTATO == <<"p", "o", "t", "a", "t", "o">>
CROP_PEPPER == <<"p", "e", "p", "p", "e", "r">>

\* self.thresholds; a crop without rainfall_min has no such key.
thresholds ==
    (CROP_COFFEE :> [temp_min |-> 15, temp_max |-> 30, humidity_min |-> 60,
                     humidity_max |-> 80, rainfall_max |-> 200, wind_max |-> 15])
    @@ (CROP_RICE :> [temp_min |-> 20, temp_max |-> 35, humidity_min |-> 70,
                      humidity_max |-> 90, rainfall_min |-> 100, rainfall_max |-> 400,
                      wind_max |-> 20])
    @@ (CROP_POTATO :> [temp_min |-> 15, temp_max |-> 25, humidity_min |-> 65,
                        humidity_max |-> 85, rainfall_max |-> 150, wind_max |-> 25])
    @@ (CROP_PEPPER :> [temp_min |-> 20, temp_max |-> 32, humidity_min |-> 60,
                        humidity_max |-> 85, rainfall_max |-> 250, wind_max |-> 15])

\* The crop the analysis is made for: coffee when the name is not known.
crop_of(crop_type) ==
    IF Lower(crop_type) \in DOMAIN thresholds THEN Lower(crop_type) ELSE CROP_COFFEE

\* One check of the analysis: the issue it appends and what it takes from
\* the score, or nothing.
Finding(issue, penalty) ==
    <<[issue |-> issue, penalty |-> penalty]>>

temperature_analysis(weather, limits, too_high_penalty) ==
    IF weather.temperature < limits.temp_min THEN Finding("temperature_low", 30)
    ELSE IF weather.temperature > limits.temp_max
    THEN Finding("temperature_high", too_high_penalty)
    ELSE <<>>

humidity_analysis(weather, limits) ==
    IF weather.humidity < limits.humidity_min THEN Finding("humidity_low", 15)
    ELSE IF weather.humidity > limits.humidity_max THEN Finding("humidity_high", 10)
    ELSE <<>>

rainfall_analysis(weather, limits) ==
    IF "rainfall_min" \in DOMAIN limits /\ weather.rainfall < limits.rainfall_min
    THEN Finding("rainfall_low", 20)
    ELSE IF weather.rainfall > limits.rainfall_max THEN Finding("rainfall_high", 20)
    ELSE <<>>

wind_analysis(weather, limits) ==
    IF weather.wind_speed > limits.wind_max THEN Finding("wind_high", 15) ELSE <<>>

RECURSIVE SumPenalties(_)
SumPenalties(findings) ==
    IF findings = <<>> THEN 0 ELSE Head(findings).penalty + SumPenalties(Tail(findings))

Analysis(crop, temperature_findings, findings) ==
    [crop |-> crop,
     suitable |-> temperature_findings = <<>>,
     issues |-> [i \in 1..Len(findings) |-> findings[i].issue],
     score |-> IF 100 - SumPenalties(findings) > 0 THEN 100 - SumPenalties(findings)
               ELSE 0]

\* analyze_weather_for_crop taking 30 for a temperature above the maximum
\* as for one below the minimum.
analyze_weather_for_crop_one_temperature_penalty(weather, crop_type) ==
    LET limits == thresholds[crop_of(crop_type)]
    IN  Analysis(crop_of(crop_type), temperature_analysis(weather, limits, 30),
                 temperature_analysis(weather, limits, 30)
                 \o humidity_analysis(weather, limits)
                 \o rainfall_analysis(weather, limits)
                 \o wind_analysis(weather, limits))

\* analyze_weather_for_crop
analyze_weather_for_crop(weather, crop_type) ==
    LET limits == thresholds[crop_of(crop_type)]
    IN  Analysis(crop_of(crop_type), temperature_analysis(weather, limits, 25),
                 temperature_analysis(weather, limits, 25)
                 \o humidity_analysis(weather, limits)
                 \o rainfall_analysis(weather, limits)
                 \o wind_analysis(weather, limits))

\* directions
directions ==
    <<"Bac", "Bac Dong Bac", "Dong Bac", "Dong Dong Bac",
      "Dong", "Dong Dong Nam", "Dong Nam", "Nam Dong Nam",
      "Nam", "Nam Tay Nam", "Tay Nam", "Tay Tay Nam",
      "Tay", "Tay Tay Bac", "Tay Bac", "Bac Tay Bac">>

\* int(degrees / 22.5) % 16, without the half sector added.
wind_direction_index_without_offset(degrees) ==
    (degrees \div 2250) % 16

\* int((degrees + 11.25) / 22.5) % 16, degrees not negative
wind_direction_index(degrees) ==
    ((degrees + 1125) \div 2250) % 16

\* _get_wind_direction_text; list indices start at 0 in the code.
get_wind_direction_text(degrees) ==
    [index |-> wind_direction_index(degrees),
     text |-> directions[wind_direction_index(degrees) + 1]]

\* crop_mapping of the earlier generate_agriculture_advice; a Vietnamese
\* letter is written with its VNI digits.
crop_mapping ==
    (<<"c", "a2", " ", "p", "h", "e6">> :> CROP_COFFEE)
    @@ (<<"c", "a", "f", "e">> :> CROP_COFFEE)
    @@ (CROP_COFFEE :> CROP_COFFEE)
    @@ (<<"l", "u1", "a">> :> CROP_RICE)
    @@ (CROP_RICE :> CROP_RICE)
    @@ (<<"k", "h", "o", "a", "i", " ", "t", "a6", "y">> :> CROP_POTATO)
    @@ (CROP_POTATO :> CROP_POTATO)
    @@ (<<"h", "o62", " ", "t", "i", "e6", "u">> :> CROP_PEPPER)
    @@ (CROP_PEPPER :> CROP_PEPPER)

normalized_crop(crop_type) ==
    IF Lower(crop_type) \in DOMAIN crop_mapping THEN crop_mapping[Lower(crop_type)]
    ELSE CROP_COFFEE

\* The generate_agriculture_advice defined first in the class, which the
\* later definition of the same name replaces: _compile_advice takes the
\* confidence from the score of the current conditions.  Confidence in
\* hundredths.
generate_agriculture_advice_first_definition(weather, crop_type) ==
    [crop_type |-> crop_type,
     confidence |-> analyze_weather_for_crop(weather, normalized_crop(crop_type)).score]

\* The confidence _analyze_weather_for_agriculture gives a reading.
weather_confidence(weather) ==
    80
    - (IF weather.temperature > 35 \/ weather.temperature < 10 THEN 20 ELSE 0)
    - (IF weather.humidity > 90 \/ weather.humidity < 20 THEN 10 ELSE 0)
    - (IF weather.wind_speed > 30 THEN 10 ELSE 0)

\* generate_agriculture_advice as the class ends up with it, the
\* definition made last; weather is the reading get_current_weather gave
\* or the demo record.
generate_agriculture_advice(weather, crop_type) ==
    [crop_type |-> crop_type, confidence |-> weather_confidence(weather)]

\* The calls of the model: readings around every threshold, and directions
\* around every sector border of two turns of the compass.
Weathers ==
    [temperature : {10, 22, 35}, humidity : {50, 70, 95},
     rainfall : {50, 300, 500}, wind_speed : {10, 30}]

CropTypes ==
    {CROP_COFFEE, CROP_RICE, CROP_POTATO, CROP_PEPPER,
     <<"C", "o", "f", "f", "e", "e">>, <<"n", "g", "o">>}

\* Readings on both sides of what the advice looks at.
AdviceWeathers ==
    [temperature : {5, 22, 36}, humidity : {15, 70, 95},
     rainfall : {50}, wind_speed : {10, 31}]

DegreesAsked ==
    {0, 1124, 1126, 18000, 36000}
    \cup {sector * 2250 + 1125 + off : sector \in 0..31, off \in {-1, 0}}

AdvisorCalls ==
    {[op |-> "analyze_weather_for_crop", weather |-> weather, crop_type |-> crop_type,
      result |-> <<>>] : weather \in Weathers, crop_type \in CropTypes}
    \cup {[op |-> "_get_wind_direction_text", degrees |-> degrees, result |-> <<>>] :
            degrees \in DegreesAsked}
    \cup {[op |-> "generate_agriculture_advice", weather |-> weather,
           crop_type |-> crop_type, result |-> <<>>] :
            weather \in AdviceWeathers, crop_type \in CropTypes}

InitAdvisorSpec ==
    /\ InitTurn
    /\ current_session = <<>>
    /\ database = EmptyDatabase
    /\ clock = 0
    /\ InitHistory
    /\ InitStore
    /\ InitSearch
    /\ InitApi
    /\ InitCli
    /\ InitOther
    /\ intent_call = [result |-> <<>>]
    /\ advisor_call \in AdvisorCalls
    /\ filter_call = [result |-> <<>>]
    /\ retention = [result |-> <<>>]

AnalyzeWeatherForCrop ==
    /\ advisor_call.op = "analyze_weather_for_crop"
    /\ advisor_call.result = <<>>
    /\ advisor_call' = [advisor_call EXCEPT !.result =
                           <<analyze_weather_for_crop(advisor_call.weather,
                                                      advisor_call.crop_type)>>]
    /\ UNCHANGED <<intent_call, filter_call, retention, api_vars, cli_vars, other_vars>>
    /\ UNCHANGED <<turn_vars, session_vars, history_vars, store_vars, search_vars>>

GetWindDirectionText ==
    /\ advisor_call.op = "_get_wind_direction_text"
    /\ advisor_call.result = <<>>
    /\ advisor_call' = [advisor_call EXCEPT !.result =
                           <<get_wind_direction_text(advisor_call.degrees)>>]
    /\ UNCHANGED <<intent_call, filter_call, retention, api_vars, cli_vars, other_vars>>
    /\ UNCHANGED <<turn_vars, session_vars, history_vars, store_vars, search_vars>>

GenerateAgricultureAdvice ==
    /\ advisor_call.op = "generate_agriculture_advice"
    /\ advisor_call.result = <<>>
    /\ advisor_call' = [advisor_call EXCEPT !.result =
                           <<generate_agriculture_advice(advisor_call.weather,
                                                         advisor_call.crop_type)>>]
    /\ UNCHANGED <<intent_call, filter_call, retention, api_vars, cli_vars, other_vars>>
    /\ UNCHANGED <<turn_vars, session_vars, history_vars, store_vars, search_vars>>

NextAdvisor ==
    \/ AnalyzeWeatherForCrop
    \/ GetWindDirectionText
    \/ GenerateAgricultureAdvice

SpecAdvisor ==
    InitAdvisorSpec /\ [][NextAdvisor]_vars

(***************************************************************************)
(* tools/domain_filter.py: normalize_text, extract_crop_entities and       *)
(* calculate_document_relevance, which give filter_documents_by_domain the *)
(* crops of the query and the relevance of each document.  Texts are       *)
(* written as the queries of the intent patterns are; a relevance is in    *)
(* hundredths.                                                             *)
(***************************************************************************)
\* self.crop_entities, in the order of the dict.
crop_keys ==
    <<"ca_phe", "lua", "ho_tieu", "ngo", "khoai_tay">>

crop_entities ==
    ("ca_phe" :> [keywords |-> <<<<"c", "a2", " ", "p", "h", "e6">>,
                          <<"c", "a", " ", "p", "h", "e">>,
                          <<"c", "o", "f", "f", "e", "e">>,
                          <<"a", "r", "a", "b", "i", "c", "a">>,
                          <<"r", "o", "b", "u", "s", "t", "a">>,
                          <<"c", "a", "f", "e1">>,
                          <<"c", "a6", "y", " ", "c", "a2", " ", "p", "h", "e6">>,
                          <<"c", "a2", "-", "p", "h", "e6">>,
                          <<"c", "a", "-", "p", "h", "e">>>>,
          related_terms |-> <<<<"c", "h", "e", "r", "r", "y">>,
                               <<"n", "h", "a6", "n">>,
                               <<"v", "o3", " ", "q", "u", "a3">>,
                               <<"x", "u73", " ", "l", "y1", " ", "u7", "o71", "t">>,
                               <<"x", "u73", " ", "l", "y1", " ", "k", "h", "o6">>,
                               <<"r", "a", "n", "g">>,
                               <<"p", "h", "a", " ", "c", "h", "e61">>,
                               <<"e", "s", "p", "r", "e", "s", "s", "o">>,
                               <<"p", "h", "i", "n">>>>])
    @@ ("lua" :> [keywords |-> <<<<"l", "u1", "a">>,
                          <<"l", "u", "a">>,
                          <<"g", "a5", "o">>,
                          <<"r", "i", "c", "e">>,
                          <<"r", "u", "o65", "n", "g", " ", "l", "u1", "a">>,
                          <<"c", "a6", "y", " ", "l", "u1", "a">>,
                          <<"l", "u1", "a", " ", "n", "u7", "o71", "c">>,
                          <<"l", "u1", "a", " ", "t", "e3">>,
                          <<"l", "u1", "a", " ", "n", "a2", "n", "g", " ", "h", "u7", "o7", "n", "g">>>>,
          related_terms |-> <<<<"t", "h", "o1", "c">>,
                               <<"c", "o61", "i", " ", "x", "a", "y">>,
                               <<"m", "a1", "y", " ", "g", "a85", "t">>,
                               <<"c", "a61", "y">>,
                               <<"g", "i", "e", "o", " ", "s", "a5">>,
                               <<"r", "u", "o65", "n", "g">>,
                               <<"d9", "o62", "n", "g", " ", "r", "u", "o65", "n", "g">>,
                               <<"m", "u2", "a", " ", "v", "u5">>,
                               <<"m", "u2", "a", " ", "c", "h", "i", "e6", "m">>,
                               <<"m", "u2", "a", " ", "m", "u2", "a">>>>])
    @@ ("ho_tieu" :> [keywords |-> <<<<"h", "o62", " ", "t", "i", "e6", "u">>,
                          <<"h", "o", " ", "t", "i", "e", "u">>,
                          <<"p", "e", "p", "p", "e", "r">>,
                          <<"t", "i", "e6", "u">>,
                          <<"t", "i", "e", "u">>,
                          <<"c", "a6", "y", " ", "h", "o62", " ", "t", "i", "e6", "u">>,
                          <<"h", "a5", "t", " ", "t", "i", "e6", "u">>,
                          <<"t", "i", "e6", "u", " ", "d9", "e", "n">>,
                          <<"t", "i", "e6", "u", " ", "t", "r", "a81", "n", "g">>>>,
          related_terms |-> <<<<"g", "i", "a2", "n", " ", "l", "e", "o">>,
                               <<"t", "r", "u5", " ", "d9", "o74">>,
                               <<"d", "a6", "y", " ", "l", "e", "o">>,
                               <<"h", "a5", "t">>,
                               <<"q", "u", "a3">>,
                               <<"t", "h", "u", " ", "h", "o", "a5", "c", "h", " ", "t", "i", "e6", "u">>,
                               <<"s", "a61", "y", " ", "k", "h", "o6">>,
                               <<"p", "h", "o7", "i">>>>])
    @@ ("ngo" :> [keywords |-> <<<<"n", "g", "o6">>,
                          <<"n", "g", "o">>,
                          <<"c", "o", "r", "n">>,
                          <<"m", "a", "i", "z", "e">>,
                          <<"b", "a81", "p">>,
                          <<"c", "a6", "y", " ", "n", "g", "o6">>,
                          <<"n", "g", "o6", " ", "s", "i", "n", "h", " ", "k", "h", "o61", "i">>,
                          <<"n", "g", "o6", " ", "l", "a", "i">>,
                          <<"n", "g", "o6", " ", "d9", "u7", "o72", "n", "g">>>>,
          related_terms |-> <<<<"b", "a81", "p", " ", "n", "o", "n">>,
                               <<"h", "a5", "t", " ", "n", "g", "o6">>,
                               <<"l", "o4", "i", " ", "n", "g", "o6">>,
                               <<"t", "h", "a6", "n", " ", "n", "g", "o6">>,
                               <<"l", "a1", " ", "n", "g", "o6">>,
                               <<"t", "u", "a", " ", "n", "g", "o6">>,
                               <<"r", "a6", "u", " ", "n", "g", "o6">>,
                               <<"s", "i", "l", "a", "g", "e">>,
                               <<"t", "h", "u71", "c", " ", "a8", "n", " ", "c", "h", "a8", "n", " ", "n", "u", "o6", "i">>>>])
    @@ ("khoai_tay" :> [keywords |-> <<<<"k", "h", "o", "a", "i", " ", "t", "a6", "y">>,
                          <<"k", "h", "o", "a", "i", " ", "t", "a", "y">>,
                          <<"p", "o", "t", "a", "t", "o">>,
                          <<"k", "h", "o", "a", "i">>,
                          <<"t", "a6", "y">>,
                          <<"c", "a6", "y", " ", "k", "h", "o", "a", "i", " ", "t", "a6", "y">>,
                          <<"c", "u3", " ", "k", "h", "o", "a", "i", " ", "t", "a6", "y">>,
                          <<"k", "h", "o", "a", "i", "-", "t", "a6", "y">>>>,
          related_terms |-> <<<<"c", "u3">>,
                               <<"g", "i", "o61", "n", "g", " ", "k", "h", "o", "a", "i">>,
                               <<"t", "r", "o62", "n", "g", " ", "k", "h", "o", "a", "i">>,
                               <<"t", "h", "u", " ", "h", "o", "a5", "c", "h", " ", "k", "h", "o", "a", "i">>,
                               <<"b", "a3", "o", " ", "q", "u", "a3", "n", " ", "k", "h", "o", "a", "i">>,
                               <<"k", "h", "o", " ", "c", "h", "u71", "a">>,
                               <<"m", "a62", "m">>,
                               <<"n", "a3", "y", " ", "m", "a62", "m">>>>])

\* replacements of normalize_text: the letter each marked letter becomes.
replacements ==
    ("a2" :> "a") @@ ("a1" :> "a") @@ ("a3" :> "a") @@ ("a4" :> "a") @@ ("a5" :> "a") @@ ("a8" :> "a")
    @@ ("a81" :> "a") @@ ("a82" :> "a") @@ ("a83" :> "a") @@ ("a84" :> "a") @@ ("a85" :> "a") @@ ("a6" :> "a")
    @@ ("a61" :> "a") @@ ("a62" :> "a") @@ ("a63" :> "a") @@ ("a64" :> "a") @@ ("a65" :> "a") @@ ("e2" :> "e")
    @@ ("e1" :> "e") @@ ("e3" :> "e") @@ ("e4" :> "e") @@ ("e5" :> "e") @@ ("e6" :> "e") @@ ("e61" :> "e")
    @@ ("e62" :> "e") @@ ("e63" :> "e") @@ ("e64" :> "e") @@ ("e65" :> "e") @@ ("i2" :> "i") @@ ("i1" :> "i")
    @@ ("i3" :> "i") @@ ("i4" :> "i") @@ ("i5" :> "i") @@ ("o2" :> "o") @@ ("o1" :> "o") @@ ("o3" :> "o")
    @@ ("o4" :> "o") @@ ("o5" :> "o") @@ ("o6" :> "o") @@ ("o61" :> "o") @@ ("o62" :> "o") @@ ("o63" :> "o")
    @@ ("o64" :> "o") @@ ("o65" :> "o") @@ ("o7" :> "o") @@ ("o71" :> "o") @@ ("o72" :> "o") @@ ("o73" :> "o")
    @@ ("o74" :> "o") @@ ("o75" :> "o") @@ ("u2" :> "u") @@ ("u1" :> "u") @@ ("u3" :> "u") @@ ("u4" :> "u")
    @@ ("u5" :> "u") @@ ("u7" :> "u") @@ ("u71" :> "u") @@ ("u72" :> "u") @@ ("u73" :> "u") @@ ("u74" :> "u")
    @@ ("u75" :> "u") @@ ("y2" :> "y") @@ ("y1" :> "y") @@ ("y3" :> "y") @@ ("y4" :> "y") @@ ("y5" :> "y")
    @@ ("d9" :> "d")

\* normalize_text: lower case, then the marks removed.
normalize_text(text) ==
    [i \in 1..Len(text) |->
        IF LowerChar(text[i]) \in DOMAIN replacements THEN replacements[LowerChar(text[i])]
        ELSE LowerChar(text[i])]

\* str.count: occurrences that do not overlap, from the left.
RECURSIVE Count(_, _)
Count(s, sub) ==
    IF Len(s) < Len(sub) THEN 0
    ELSE IF SubSeq(s, 1, Len(sub)) = sub
    THEN 1 + Count(SubSeq(s, Len(sub) + 1, Len(s)), sub)
    ELSE Count(Tail(s), sub)

\* extract_crop_entities: the crops one of whose keywords is in the query.
extract_crop_entities(query) ==
    SelectSeq(crop_keys,
              LAMBDA crop : \E n \in DOMAIN crop_entities[crop].keywords :
                  Contains(normalize_text(query),
                           normalize_text(crop_entities[crop].keywords[n])))

\* What one keyword adds to the score of a crop: 0.6 * min(matches / 5, 1)
\* for the content and 0.8 for the filename.
keyword_score(content, filename, keyword, filename_weight) ==
    (IF Count(content, keyword) > 0 THEN 12 * Min(Count(content, keyword), 5) ELSE 0)
    + (IF Contains(filename, keyword) THEN filename_weight ELSE 0)

RECURSIVE keywords_score(_, _, _, _)
keywords_score(content, filename, keywords, filename_weight) ==
    IF keywords = <<>> THEN 0
    ELSE keyword_score(content, filename, normalize_text(Head(keywords)), filename_weight)
         + keywords_score(content, filename, Tail(keywords), filename_weight)

\* What the related terms add: 0.2 for each term in the content.
RECURSIVE related_score(_, _)
related_score(content, terms) ==
    IF terms = <<>> THEN 0
    ELSE (IF Contains(content, normalize_text(Head(terms))) THEN 20 ELSE 0)
         + related_score(content, Tail(terms))

\* The score of one crop, at most 1.0.
crop_score(content, filename, crop, filename_weight) ==
    Min(keywords_score(content, filename, crop_entities[crop].keywords, filename_weight)
        + related_score(content, crop_entities[crop].related_terms), 100)

RECURSIVE total_score(_, _, _, _)
total_score(content, filename, query_crops, filename_weight) ==
    IF query_crops = <<>> THEN 0
    ELSE crop_score(content, filename, Head(query_crops), filename_weight)
         + total_score(content, filename, Tail(query_crops), filename_weight)

\* calculate_document_relevance with the filename weighing no more than one
\* mention in the content.
calculate_document_relevance_light_filename(document, query_crops) ==
    IF query_crops = <<>> THEN 100
    ELSE total_score(normalize_text(document.page_content),
                     normalize_text(document.filename), query_crops, 12)
         \div Len(query_crops)

\* calculate_document_relevance
calculate_document_relevance(document, query_crops) ==
    IF query_crops = <<>> THEN 100
    ELSE total_score(normalize_text(document.page_content),
                     normalize_text(document.filename), query_crops, 80)
         \div Len(query_crops)

\* filter_documents_by_domain on a query and documents as they are: each
\* document with the relevance calculated for it.
filter_by_domain(documents, query, min_relevance) ==
    filter_documents_by_domain(
        [i \in 1..Len(documents) |->
            [filename |-> documents[i].filename,
             page_content |-> documents[i].page_content,
             relevance |-> calculate_document_relevance(documents[i],
                                                        extract_crop_entities(query))]],
        extract_crop_entities(query) # <<>>, min_relevance)

\* The documents of the model: two named after coffee, three that speak of
\* it, once, five times and by a related term, and one about rice.
FilterDocuments ==
    {[filename |-> <<"k", "y", " ", "t", "h", "u", "a", "t", " ", "c", "a", " ", "p", "h", "e", ".", "p", "d", "f">>,
      page_content |-> <<"c", "a1", "c", "h", " ", "c", "h", "a8", "m", " ", "s", "o1", "c", " ", "c", "a6", "y">>],
     [filename |-> <<"c", "o", "f", "f", "e", "e", ".", "p", "d", "f">>,
      page_content |-> <<"c", "a1", "c", "h", " ", "c", "h", "a8", "m", " ", "s", "o1", "c", " ", "c", "a6", "y">>],
     [filename |-> <<"t", "a", "i", " ", "l", "i", "e", "u", ".", "p", "d", "f">>,
      page_content |-> <<"C", "a2", " ", "p", "h", "e6", " ", "c", "a62", "n", " ", "b", "o1", "n", "g", " ", "m", "a1", "t">>],
     [filename |-> <<"s", "o", " ", "t", "a", "y", ".", "p", "d", "f">>,
      page_content |-> <<"c", "a2", " ", "p", "h", "e6", ",", " ", "c", "a2", " ", "p", "h", "e6", ",", " ", "c", "a2", " ", "p", "h", "e6", ",", " ", "c", "a2", " ", "p", "h", "e6", " ", "v", "a2", " ", "c", "a2", " ", "p", "h", "e6">>],
     [filename |-> <<"p", "h", "a", " ", "c", "h", "e", ".", "p", "d", "f">>,
      page_content |-> <<"p", "h", "a", " ", "e", "s", "p", "r", "e", "s", "s", "o">>],
     [filename |-> <<"l", "u", "a", ".", "p", "d", "f">>,
      page_content |-> <<"r", "u", "o65", "n", "g", " ", "l", "u1", "a", " ", "n", "u7", "o71", "c">>]}

\* The queries of the model: for coffee, for no crop, for two crops.
FilterQueries ==
    {<<"c", "a1", "c", "h", " ", "t", "r", "o62", "n", "g", " ", "c", "a2", " ", "p", "h", "e6">>,
     <<"C", "o", "f", "f", "e", "e">>,
     <<"t", "h", "o72", "i", " ", "t", "i", "e61", "t", " ", "h", "o6", "m", " ", "n", "a", "y">>,
     <<"c", "a2", " ", "p", "h", "e6", " ", "v", "a2", " ", "l", "u1", "a">>}

\* A call is given three different documents in some order.
FilterCalls ==
    {asked \in [documents : FilterDocuments \X FilterDocuments \X FilterDocuments,
               query : FilterQueries, result : {<<>>}] :
        /\ asked.documents[1] # asked.documents[2]
        /\ asked.documents[1] # asked.documents[3]
        /\ asked.documents[2] # asked.documents[3]}

InitFilterSpec ==
    /\ InitTurn
    /\ current_session = <<>>
    /\ database = EmptyDatabase
    /\ clock = 0
    /\ InitHistory
    /\ InitStore
    /\ InitSearch
    /\ InitApi
    /\ InitCli
    /\ InitOther
    /\ intent_call = [result |-> <<>>]
    /\ advisor_call = [result |-> <<>>]
    /\ filter_call \in FilterCalls
    /\ retention = [result |-> <<>>]

FilterDocumentsByDomain ==
    /\ filter_call.result = <<>>
    /\ filter_call' = [filter_call EXCEPT !.result =
                          <<filter_by_domain(filter_call.documents, filter_call.query,
                                             MIN_RELEVANCE)>>]
    /\ UNCHANGED <<intent_call, advisor_call, retention, api_vars, cli_vars, other_vars>>
    /\ UNCHANGED <<turn_vars, session_vars, history_vars, store_vars, search_vars>>

NextFilter ==
    FilterDocumentsByDomain

SpecFilter ==
    InitFilterSpec /\ [][NextFilter]_vars
(***************************************************************************)
(* agents/intent_analyzer.py: analyze_intent on its own.  The environment  *)
(* decides what the pattern tiers make of the query, what the LLM sends    *)
(* back, and where an exception is raised.                                 *)
(***************************************************************************)
\* What self.llm.invoke can give _analyze_with_llm: an exception; a text
\* that is no JSON object; braces that json.loads rejects; an object
\* without the three keys; a confidence float() rejects; an intent that is
\* no IntentType; a well-formed answer.
LlmResponseKinds ==
    {"raises", "text", "bad_json", "missing_keys", "bad_number", "bad_intent", "answer"}

LlmResponses ==
    [kind : LlmResponseKinds \ {"answer"}, intent : {"unknown"}, confidence : {0}]
    \cup [kind : {"answer"}, intent : {"search_document", "weather_agriculture"},
          confidence : {0, 30, 50, 90, 150}]

\* The try block of _analyze_with_llm up to its return: the result made of
\* the LLM's answer, <<>> when the block falls through or raises.
parse_llm_response(response) ==
    IF response.kind = "answer" /\ response.intent \in IntentValues
    THEN <<create_intent_result(response.intent, response.confidence, <<>>)>>
    ELSE <<>>

\* Where analyze_intent can raise: nowhere, in _extract_intent_patterns
\* before the LLM is asked, in extract_keywords after it.
ExceptionSites ==
    {"none", "patterns", "keywords"}

\* analyze_intent that asks the LLM whatever the pattern tiers found.
llm_invocations_always(user_query, pattern_result, exc_site) ==
    IF ~validate_query(user_query).is_valid \/ exc_site = "patterns" THEN 0 ELSE 1

\* How many times analyze_intent invokes the LLM.
llm_invocations(user_query, pattern_result, exc_site) ==
    IF ~validate_query(user_query).is_valid \/ exc_site = "patterns" THEN 0
    ELSE IF pattern_result.confidence < MEDIUM_CONFIDENCE_THRESHOLD THEN 1
    ELSE 0

\* The pattern results of the calls: those of the tiers, and the score 0.5
\* of a query with a question word alone.
AnalyzePatterns ==
    PatternResults \cup {create_intent_result("search_document", 50, <<>>)}

AnalyzeCalls ==
    [user_query : {Q_BLANK, Q_SHORT, Q_WEATHER},
     pattern_result : AnalyzePatterns,
     response : LlmResponses,
     exc_site : ExceptionSites,
     result : {<<>>}]

InitAnalyzeSpec ==
    /\ InitTurn
    /\ current_session = <<>>
    /\ database = EmptyDatabase
    /\ clock = 0
    /\ InitHistory
    /\ InitStore
    /\ InitSearch
    /\ InitApi
    /\ InitCli
    /\ InitFunctions
    /\ state_call = [result |-> <<>>]
    /\ process = [result |-> <<>>]
    /\ builders = [result |-> <<>>]
    /\ ui = [result |-> <<>>]
    /\ analyze_call \in AnalyzeCalls
    /\ weather_call = [result |-> <<>>]

AnalyzeIntent ==
    /\ analyze_call.result = <<>>
    /\ analyze_call' =
          [analyze_call EXCEPT !.result =
              <<[returned |-> analyze_intent(analyze_call.user_query,
                                             analyze_call.pattern_result,
                                             parse_llm_response(analyze_call.response),
                                             IF analyze_call.exc_site = "none" THEN <<>>
                                             ELSE <<MSG_TIMEOUT>>),
                 llm_calls |-> llm_invocations(analyze_call.user_query,
                                               analyze_call.pattern_result,
                                               analyze_call.exc_site)]>>]
    /\ UNCHANGED <<api_vars, cli_vars, function_vars, weather_call, state_call, process, builders, ui>>
    /\ UNCHANGED <<turn_vars, session_vars, history_vars, store_vars, search_vars>>

NextAnalyze ==
    AnalyzeIntent

SpecAnalyze ==
    InitAnalyzeSpec /\ [][NextAnalyze]_vars

(***************************************************************************)
(* agents/action_executor.py: the two weather handlers on their own, on a  *)
(* state with a conversation history and a cache of any kind.              *)
(***************************************************************************)
\* The last turn of the history a handler can meet: none, a weather turn, a
\* turn of another intent, a turn without intent.
HandlerHistories ==
    {<<>>,
     <<[role |-> "assistant", content |-> RESP_WEATHER, intent |-> "weather_query"]>>,
     <<[role |-> "assistant", content |-> RESP_ANSWER, intent |-> "search_document"]>>,
     <<[role |-> "assistant", content |-> RESP_WEATHER]>>}

\* The cache a handler can meet: none, the entry a weather handler left
\* for a location, the entry process_query makes of the conversation
\* context, which holds no reading.
HandlerCaches ==
    {<<>>,
     <<[timestamp |-> 0, location |-> "detected_location"]>>}
    \cup {<<[weather |-> [location_name |-> location, origin |-> "api"],
             location |-> location, timestamp |-> 0]>> : location \in Locations}

\* The time of the call; the cache entries were made at 0.
HandlerTimes ==
    {0, CACHE_TTL - 1, CACHE_TTL, 2 * CACHE_TTL}

\* What get_current_weather returns when it is called.
HandlerEnvs(user_query) ==
    {[kb |-> [retriever |-> DocumentRetriever(<<>>, FALSE), names_crop |-> FALSE,
              envs |-> <<QuietSearch, QuietSearch, QuietSearch>>, raises |-> FALSE],
      location |-> ExtractedLocation(user_query),
      weather |-> weather, raises |-> FALSE, llm_ok |-> TRUE] :
        weather \in {<<>>, <<[location_name |-> ExtractedLocation(user_query),
                              origin |-> "api"]>>}}

WeatherCalls ==
    {[state |-> [create_initial_state(asked.user_query, <<>>, asked.now) EXCEPT
                    !.intent = asked.intent,
                    !.confidence = 90,
                    !.conversation_history = asked.history,
                    !.last_weather_data = asked.cache,
                    !.last_location = asked.last_location],
      env |-> asked.env,
      now |-> asked.now,
      result |-> <<>>] :
        asked \in {picked \in [intent : WeatherIntents,
                               user_query : {Q_WEATHER, Q_FOLLOWUP},
                               history : HandlerHistories,
                               cache : HandlerCaches,
                               last_location : {NoneVal} \cup Locations,
                               now : HandlerTimes,
                               env : HandlerEnvs(Q_WEATHER) \cup HandlerEnvs(Q_FOLLOWUP)] :
                      picked.env \in HandlerEnvs(picked.user_query)}}

InitWeatherSpec ==
    /\ InitTurn
    /\ current_session = <<>>
    /\ database = EmptyDatabase
    /\ clock = 0
    /\ InitHistory
    /\ InitStore
    /\ InitSearch
    /\ InitApi
    /\ InitCli
    /\ InitFunctions
    /\ analyze_call = [result |-> <<>>]
    /\ state_call = [result |-> <<>>]
    /\ process = [result |-> <<>>]
    /\ builders = [result |-> <<>>]
    /\ ui = [result |-> <<>>]
    /\ weather_call \in WeatherCalls

\* execute_action on a weather intent: the state the handler returns and
\* the calls of get_current_weather it and the advisor under it made.
HandleWeather ==
    /\ weather_call.result = <<>>
    /\ weather_call' =
          [weather_call EXCEPT !.result =
              <<[state |-> execute_action(weather_call.state, weather_call.env,
                                          weather_call.now),
                 weather_fetches |-> WeatherFetches(weather_call.state, weather_call.env,
                                                    weather_call.now),
                 location_extractions |-> LocationExtractions(weather_call.state,
                                                              weather_call.env,
                                                              weather_call.now)]>>]
    /\ UNCHANGED <<api_vars, cli_vars, function_vars, analyze_call, state_call, process, builders, ui>>
    /\ UNCHANGED <<turn_vars, session_vars, history_vars, store_vars, search_vars>>

NextWeather ==
    HandleWeather

SpecWeather ==
    InitWeatherSpec /\ [][NextWeather]_vars

(***************************************************************************)
(* graph/state_manager.py over Python's objects.  A state is a dict whose  *)
(* execution_path, errors and conversation_history are lists: objects that *)
(* several dicts can hold at once.  lists is the sequence of the list      *)
(* objects that exist; a dict holds a list by its place in lists.          *)
(***************************************************************************)
ListKeys ==
    {"execution_path", "errors", "conversation_history"}

\* The dict with every list it holds read out.
Deref(lists, dict) ==
    [k \in DOMAIN dict |-> IF k \in ListKeys THEN lists[dict[k]] ELSE dict[k]]

\* list.extend(items) on the list object at place.
Extend(lists, place, items) ==
    [lists EXCEPT ![place] = @ \o items]

\* update_state: {**current_state, **updates} copies the dict and not the
\* lists in it; get("execution_path", []) and get("errors", []) hand back
\* the list the new dict holds, a new list only when it holds none;
\* append and extend change that list where it is.
update_state_objects(lists, current_state, updates, step_name) ==
    LET new_state == Merge(current_state, updates)
        with_path == IF "execution_path" \in DOMAIN new_state THEN lists
                     ELSE Append(lists, <<>>)
        path == IF "execution_path" \in DOMAIN new_state THEN new_state.execution_path
                ELSE Len(with_path)
        appended == Extend(with_path, path, <<step_name>>)
        pathed == Merge(new_state, [execution_path |-> path])
        validation_errors == validate_state(Deref(appended, pathed))
        with_errors == IF "errors" \in DOMAIN pathed THEN appended
                       ELSE Append(appended, <<>>)
        errors == IF "errors" \in DOMAIN pathed THEN pathed.errors ELSE Len(with_errors)
    IN  IF validation_errors = <<>>
        THEN [state |-> pathed, lists |-> appended]
        ELSE [state |-> Merge(pathed, [errors |-> errors]),
              lists |-> Extend(with_errors, errors, validation_errors)]

\* create_initial_state: conversation_history is the list the previous
\* state holds (a new one when it holds none, or when there is no previous
\* state); the previous turn is appended to it where it is, and the slice
\* [-5:] then makes the new state's own list.  execution_path and errors
\* are new lists.
create_initial_state_objects(lists, user_query, previous_state, now) ==
    LET seeded == previous_state # <<>> /\ DOMAIN previous_state[1] # {}
        held == seeded /\ "conversation_history" \in DOMAIN previous_state[1]
        with_history == IF held THEN lists ELSE Append(lists, <<>>)
        history == IF held THEN previous_state[1].conversation_history
                   ELSE Len(with_history)
        turn_added == /\ seeded
                      /\ Get(previous_state[1], "user_query", <<>>) # <<>>
                      /\ Get(previous_state[1], "response", <<>>) # <<>>
        appended == IF turn_added
                    THEN Extend(with_history, history,
                                <<[user_query |-> previous_state[1].user_query,
                                   response |-> previous_state[1].response,
                                   intent |-> Get(previous_state[1], "intent", NoneVal),
                                   timestamp |-> Get(previous_state[1], "timestamp", 0)]>>)
                    ELSE with_history
        sliced == IF turn_added
                  THEN Append(appended, LastN(appended[history], HISTORY_CAP))
                  ELSE appended
        made == sliced \o <<<<>>, <<>>>>
    IN  [state |-> [user_query |-> Strip(user_query),
                    conversation_history |-> IF turn_added THEN Len(sliced) ELSE history,
                    last_weather_data |->
                        IF seeded THEN Get(previous_state[1], "last_weather_data", <<>>)
                        ELSE <<>>,
                    last_location |->
                        IF seeded THEN Get(previous_state[1], "last_location", NoneVal)
                        ELSE NoneVal,
                    intent |-> NoneVal,
                    confidence |-> 0,
                    search_results |-> <<>>,
                    sources |-> <<>>,
                    response |-> <<>>,
                    response_type |-> "",
                    timestamp |-> now,
                    execution_path |-> Len(made) - 1,
                    errors |-> Len(made),
                    action_completed |-> FALSE],
         lists |-> made]

\* The list objects of a call: an execution path, an errors list, a
\* history of four or five turns, and an errors list of the updates.
PastTurn(n) ==
    [user_query |-> Q_WEATHER, response |-> RESP_WEATHER, intent |-> "weather_query",
     timestamp |-> n]

StateLists ==
    {<<path, errors, [n \in 1..turns_held |-> PastTurn(n)], <<ERR_QUERY_SHORT>>>> :
        path \in {<<>>, <<INTENT_ANALYSIS_NODE>>},
        errors \in {<<>>, <<ERR_QUERY_EMPTY>>},
        turns_held \in {0, 4, 5}}

\* A state that holds the first three lists.
GivenState(user_query, response, confidence) ==
    [user_query |-> user_query, response |-> response, intent |-> "weather_query",
     confidence |-> confidence, timestamp |-> 0,
     execution_path |-> 1, errors |-> 2, conversation_history |-> 3]

GivenStates ==
    {GivenState(user_query, response, confidence) :
        user_query \in {<<>>, Q_WEATHER}, response \in {<<>>, RESP_WEATHER},
        confidence \in {90, 150}}

\* The updates a node can bring: a response, a confidence, its own errors
\* list.
StateUpdates ==
    {[response |-> RESP_ANSWER],
     [confidence |-> 150],
     [response |-> RESP_NODE_ERROR, errors |-> 4]}

StateCalls ==
    [op : {"update_state"}, lists : StateLists, given : GivenStates,
     updates : StateUpdates, step_name : {ACTION_EXECUTION_NODE}, result : {<<>>}]
    \cup [op : {"create_initial_state"}, lists : StateLists,
          given : {<<>>} \cup {<<given>> : given \in GivenStates},
          user_query : {Q_FOLLOWUP}, result : {<<>>}]

InitStateSpec ==
    /\ InitTurn
    /\ current_session = <<>>
    /\ database = EmptyDatabase
    /\ clock = 0
    /\ InitHistory
    /\ InitStore
    /\ InitSearch
    /\ InitApi
    /\ InitCli
    /\ InitFunctions
    /\ analyze_call = [result |-> <<>>]
    /\ weather_call = [result |-> <<>>]
    /\ process = [result |-> <<>>]
    /\ builders = [result |-> <<>>]
    /\ ui = [result |-> <<>>]
    /\ state_call \in StateCalls

UpdateState ==
    /\ state_call.op = "update_state"
    /\ state_call.result = <<>>
    /\ state_call' = [state_call EXCEPT !.result =
                         <<update_state_objects(state_call.lists, state_call.given,
                                                state_call.updates,
                                                state_call.step_name)>>]
    /\ UNCHANGED <<api_vars, cli_vars, function_vars, analyze_call, weather_call, process, builders, ui>>
    /\ UNCHANGED <<turn_vars, session_vars, history_vars, store_vars, search_vars>>

CreateInitialState ==
    /\ state_call.op = "create_initial_state"
    /\ state_call.result = <<>>
    /\ state_call' = [state_call EXCEPT !.result =
                         <<create_initial_state_objects(state_call.lists,
                                                        state_call.user_query,
                                                        state_call.given, 1)>>]
    /\ UNCHANGED <<api_vars, cli_vars, function_vars, analyze_call, weather_call, process, builders, ui>>
    /\ UNCHANGED <<turn_vars, session_vars, history_vars, store_vars, search_vars>>

NextState ==
    \/ UpdateState
    \/ CreateInitialState

SpecState ==
    InitStateSpec /\ [][NextState]_vars


(***************************************************************************)
(* Properties                                                              *)
(***************************************************************************)
\* Whether some error text holds the word, whatever the case of its letters.
MentionsWord(errors, word) ==
    \E i \in 1..Len(errors) :
        \E k \in 1..Len(errors[i]) :
            /\ k + Len(word) - 1 <= Len(errors[i])
            /\ \A n \in 1..Len(word) : LowerChar(errors[i][k + n - 1]) = word[n]

\* States handed to the router: every intent or none, a confidence of zero
\* or more, and up to two recorded errors.
RouterErrorTexts ==
    {PFX_ANALYSIS \o MSG_TIMEOUT, PFX_ANALYSIS \o MSG_PYDANTIC,
     PFX_INTENT_NODE \o MSG_QUOTA, ERR_INVALID_CONFIDENCE, ERR_QUERY_EMPTY}

RouterStates ==
    [intent : IntentValues \cup {NoneVal},
     confidence : {0, 10, 90, 150},
     errors : {<<>>} \cup {<<e>> : e \in RouterErrorTexts}
              \cup {<<e, f>> : e \in RouterErrorTexts, f \in RouterErrorTexts}]

\* Where the router is to send a state.
RouteOf(s) ==
    IF MentionsWord(s.errors, TXT_VALIDATION) \/ MentionsWord(s.errors, TXT_CRITICAL)
    THEN END
    ELSE IF s.intent = NoneVal \/ s.confidence = 0 THEN END
    ELSE ACTION_EXECUTION_NODE

\* The step after intent analysis goes where the router is to send the
\* state that intent analysis has left.
RouterStep ==
    pc = INTENT_ANALYSIS_NODE =>
        pc' = IF RouteOf(state') = END THEN "respond" ELSE ACTION_EXECUTION_NODE

\* C1: after intent analysis the router ends the turn when a recorded error
\* mentions "validation" or "critical" in any case, else when the intent is
\* absent or the confidence is 0 whatever the intent, and otherwise goes on
\* to action execution; no state with confidence 0 is ever in action
\* execution.
C1_Router ==
    /\ \A s \in RouterStates : route_after_intent_analysis(s) = RouteOf(s)
    /\ [][RouterStep]_vars
    /\ [](pc = ACTION_EXECUTION_NODE => state.confidence # 0)

\* A turn the router has ended after intent analysis because of an error
\* that mentions "Validation" with a capital letter.
C1_Witness ==
    /\ pc = "respond"
    /\ Get(state, "execution_path", <<>>) = <<INTENT_ANALYSIS_NODE>>
    /\ \E i \in 1..Len(state.errors) : Contains(state.errors[i], MSG_PYDANTIC)

\* A node's step adds the node's name to the end of the path; action
\* execution can only follow intent analysis, and the end follows it.
NodeStep ==
    pc \in {INTENT_ANALYSIS_NODE, ACTION_EXECUTION_NODE} =>
        /\ state'.execution_path = Append(state.execution_path, pc)
        /\ pc' \in (IF pc = INTENT_ANALYSIS_NODE
                    THEN {ACTION_EXECUTION_NODE, "respond"} ELSE {"respond"})

\* C2: in every turn intent analysis runs first and once, action execution
\* at most once and only after it, and the graph then ends; each node adds
\* its own name to the end of execution_path, so the path of a finished run
\* is [intent_analysis] or [intent_analysis, action_execution].
C2_PipelineOrder ==
    /\ [](pc = INTENT_ANALYSIS_NODE => state.execution_path = <<>>)
    /\ [](pc = ACTION_EXECUTION_NODE => state.execution_path = <<INTENT_ANALYSIS_NODE>>)
    /\ [](pc = "respond" /\ "execution_path" \in DOMAIN state =>
            state.execution_path \in {<<INTENT_ANALYSIS_NODE>>,
                                      <<INTENT_ANALYSIS_NODE, ACTION_EXECUTION_NODE>>})
    /\ [][NodeStep]_vars

\* A run that has been through both nodes and has ended.
C2_Witness ==
    /\ pc = "respond"
    /\ Get(state, "execution_path", <<>>) = <<INTENT_ANALYSIS_NODE, ACTION_EXECUTION_NODE>>
    /\ Get(state, "action_completed", FALSE)

\* Two turns of the log, one after the other in the same session: the
\* first a weather turn that settled on a location, the second within the
\* lifetime of a cached reading, with a follow-up phrase in its query and
\* answered by a weather handler.
FollowUpPair(first, second) ==
    /\ first.session_id = second.session_id
    /\ first.intent \in WeatherIntents
    /\ first.last_location # NoneVal
    /\ second.started_at - first.started_at < CACHE_TTL
    /\ \E indicator \in FOLLOWUP_INDICATORS : Contains(Lower(second.user_query), indicator)
    /\ second.intent \in WeatherIntents
    /\ second.action_ran

\* C3: the second of two consecutive turns of a session, a follow-up within
\* 30 minutes of a weather turn that resolved a location, reuses the cached
\* reading and location: it fetches no weather and extracts no location.
C3_FollowUpReuse ==
    \A i \in 1..(Len(turn_log) - 1) :
        FollowUpPair(turn_log[i], turn_log[i + 1]) =>
            /\ turn_log[i + 1].weather_fetches = 0
            /\ turn_log[i + 1].location_extractions = 0

\* C4: every finished call of process_query_with_history has returned
\* rather than raised, has added to the session the user message and then
\* exactly one bot message, the response or the error text, and has left
\* the session as it stands in the database.
C4_TurnRecorded ==
    (pc = "idle" /\ outcome # <<>>) =>
        /\ ~outcome[1].raised
        /\ current_session # <<>>
        /\ LET messages == current_session[1].messages
               base == outcome[1].base_length
           IN  /\ Len(messages) = base + 2
               /\ messages[base + 1].is_user
               /\ messages[base + 1].content = outcome[1].user_query
               /\ ~messages[base + 2].is_user
               /\ messages[base + 2].content = outcome[1].response
        /\ current_session[1].session_id \in DOMAIN database
        /\ database[current_session[1].session_id] = SessionRow(current_session[1])

\* C6: the conversation_history of a state made by create_initial_state
\* holds at most 5 entries: exactly 5 when the previous state brings 5 and
\* its own turn, and never more for any conversation context that comes in
\* through process_query.
C6_HistoryCap ==
    /\ \A n \in 0..(HISTORY_CAP + 2) :
          LET entry == [user_query |-> Q_WEATHER, response |-> RESP_WEATHER,
                        intent |-> "weather_query", timestamp |-> 0]
              previous == [conversation_history |-> [i \in 1..n |-> entry],
                           user_query |-> Q_WEATHER, response |-> RESP_WEATHER,
                           intent |-> "weather_query", timestamp |-> 0]
              made == create_initial_state(Q_FOLLOWUP, <<previous>>, 0)
          IN  Len(made.conversation_history) = IF n + 1 < HISTORY_CAP THEN n + 1
                                                ELSE HISTORY_CAP
    /\ (pc # "idle" => Len(Get(state, "conversation_history", <<>>)) <= HISTORY_CAP)

\* C5: a session saved with its messages and then loaded by its id has the
\* same message contents, in the same order and with the same is_user
\* flags, and its updated_at is not before the value the session had
\* before that save, whatever add_message and save_session calls came
\* before.
C5_SaveLoadRoundTrip ==
    loaded_session # <<>> =>
        /\ last_save # <<>>
        /\ loaded_session[1].session_id = last_save[1].session.session_id
        /\ Len(loaded_session[1].messages) = Len(last_save[1].session.messages)
        /\ \A i \in 1..Len(loaded_session[1].messages) :
              /\ loaded_session[1].messages[i].content = last_save[1].session.messages[i].content
              /\ loaded_session[1].messages[i].is_user = last_save[1].session.messages[i].is_user
        /\ loaded_session[1].updated_at >= last_save[1].updated_before

\* A session of two messages, one with the characters JSON escapes, loaded
\* after a save made later than the session's last change.
C5_Witness ==
    /\ loaded_session # <<>>
    /\ Len(loaded_session[1].messages) = MaxMessages
    /\ \E i \in 1..Len(loaded_session[1].messages) :
          loaded_session[1].messages[i].content = <<"\"", "a", "\\">>
    /\ loaded_session[1].updated_at > last_save[1].updated_before

\* The documents the last add_documents call kept, and the batch of them
\* numbered batch_num.
CallDocuments ==
    valid_docs(InputDocuments(store_call.shape, store_calls))

CallBatch(batch_num) ==
    batch_of(CallDocuments, batch_num)

\* The chunks a store constructed now would load from the database path.
PersistedChunks ==
    LET index == create_or_load_vector_store(disk_index, TRUE)
    IN  IF index = <<>> THEN {} ELSE {index[1][i] : i \in 1..Len(index[1])}

\* C7: after an add_documents call, every document of every batch that was
\* added and saved is in the persisted index, whatever happened to the
\* batches after it: no later batch rolls an earlier one back.
C7_BatchDurability ==
    store_call.op = "add_documents" =>
        \A batch_num \in 1..total_batches(CallDocuments) :
            store_call.outcomes[batch_num] = "ok" =>
                \A i \in 1..Len(CallBatch(batch_num)) :
                    CallBatch(batch_num)[i] \in PersistedChunks

\* The ids doc_0 .. doc_{count - 1}.
SyntheticIds(count) ==
    [i \in 1..count |-> <<"doc_", i - 1>>]

\* The claim of C8 as stated: add_documents returns doc_0, doc_1, ... with
\* one id for each non-empty input document.
C8_IdForEveryAccepted ==
    store_call.op = "add_documents" =>
        store_call.ids = SyntheticIds(Len(CallDocuments))

\* The documents of the batches whose index update went through.
RECURSIVE AddedCount(_)
AddedCount(batch_num) ==
    IF batch_num = 0 THEN 0
    ELSE AddedCount(batch_num - 1)
         + (IF store_call.outcomes[batch_num] \in {"ok", "save_error"}
            THEN Len(CallBatch(batch_num)) ELSE 0)

\* C8: add_documents returns doc_0, doc_1, ... in order, one id for each
\* non-empty input document of a batch that was added to the index; that
\* is one for each non-empty input document when no batch fails.
C8_IdForEveryAdded ==
    store_call.op = "add_documents" =>
        /\ store_call.ids = SyntheticIds(AddedCount(total_batches(CallDocuments)))
        /\ (\A batch_num \in 1..total_batches(CallDocuments) :
                store_call.outcomes[batch_num] = "ok")
           => Len(store_call.ids) = Len(CallDocuments)

\* Sixty documents, the blank ones dropped, the first batch skipped for an
\* error and the two of the second batch given doc_0 and doc_1.
C8_Witness ==
    /\ store_call.op = "add_documents"
    /\ store_call.shape.content = "blanks"
    /\ store_call.outcomes = <<"error", "ok">>
    /\ store_call.ids = <<<<"doc_", 0>>, <<"doc_", 1>>>>

C9_MissingDirectoryStep ==
    (/\ store_calls' # store_calls
     /\ store_call'.op = "ingest_from_directory"
     /\ store_call'.path = "missing")
    => /\ store_call'.raised = "FileNotFoundError"
       /\ disk_index' = disk_index
       /\ memory_index' = memory_index

\* C9: ingest_from_directory on a path that does not exist raises
\* FileNotFoundError and leaves the index files and the in-memory index as
\* they were, with clear_existing set or not.
C9_MissingDirectory ==
    [][C9_MissingDirectoryStep]_vars

\* A missing path ingested with clear_existing set, after an index was
\* saved.
C9_Witness ==
    /\ store_call.op = "ingest_from_directory"
    /\ store_call.path = "missing"
    /\ store_call.clear_existing
    /\ store_call.raised = "FileNotFoundError"
    /\ disk_index.pkl # <<>>
    /\ memory_index # <<>>

\* No retriever call of the search returns a chunk.
RetrievesNothing ==
    LET query == [names_crop |-> kb_call.names_crop]
    IN  /\ search_with_scores(kb_call.retriever, query, kb_call.limit,
                              kb_call.envs[1]) = <<>>
        /\ search_documents(kb_call.retriever, query, kb_call.limit,
                            kb_call.envs[2]) = <<>>
        /\ search_with_scores(kb_call.retriever, query, kb_call.limit,
                              kb_call.envs[3]) = <<>>

\* A retriever built on no chunk that searches an index without chunks.
EmptyIndex ==
    /\ kb_call.retriever.documents = <<>>
    /\ kb_call.retriever.store \in {<<>>, <<<<>>>>}

\* C10: search_knowledge_base on a query that retrieves nothing, as every
\* query on an empty index does, returns a result with has_results false,
\* avg_confidence 0.0, max_confidence 0.0 and no sources.
C10_NothingRetrieved ==
    kb_call.result # <<>> =>
        /\ EmptyIndex => RetrievesNothing
        /\ RetrievesNothing =>
              /\ ~kb_call.result[1].has_results
              /\ kb_call.result[1].avg_confidence = 0
              /\ kb_call.result[1].max_confidence = 0
              /\ kb_call.result[1].sources = <<>>
              /\ kb_call.result[1].results_count = 0

\* A search of an empty index that went through without an exception.
C10_Witness ==
    /\ kb_call.result # <<>>
    /\ kb_call.retriever.store = <<<<>>>>
    /\ EmptyIndex
    /\ ~kb_call.kb_raises
    /\ \A i \in 1..3 : kb_call.envs[i] = QuietSearch
    /\ ~kb_call.result[1].has_results

\* C11: process_query never raises: whenever a call of it is over, it has
\* returned a state, and when an exception was raised during the call
\* (graph construction included) that state is the minimal one with
\* intent "unknown", response_type "system_error" and action_completed
\* false.
C11_ProcessQueryReturns ==
    pc = "respond" =>
        /\ call.raised = <<>>
        /\ call.caught # <<>> =>
              /\ state.intent = "unknown"
              /\ state.response_type = "system_error"
              /\ state.action_completed = FALSE

\* C12: every turn that fails or is cut short (errors recorded, or the
\* action not completed) ends with a non-empty response for the user that
\* is one of the plain retry sentences, never the debug text of the
\* weather-agriculture handler.
C12_FailedTurnHasResponse ==
    (/\ pc = "respond"
     /\ call.raised = <<>>
     /\ (state.errors # <<>> \/ state.action_completed = FALSE)) =>
        /\ state.response # <<>>
        /\ state.response # RESP_DEBUG_ERROR

\* C13: POST /chat answers 500 only on an internal failure: a request whose
\* pipeline run succeeds is answered 200 with that run's response, intent
\* and confidence.
C13_ChatCarriesRun ==
    \A i \in 1..Len(api_log) :
        (api_log[i].route = "chat" /\ api_log[i].run[1].succeeded) =>
            /\ api_log[i].answer.status_code = 200
            /\ api_log[i].answer.response = api_log[i].run[1].response[1]
            /\ api_log[i].answer.intent = api_log[i].run[1].intent
            /\ api_log[i].answer.confidence = api_log[i].run[1].confidence

\* The answers to POST /ingest so far.
IngestAnswers ==
    {i \in 1..Len(api_log) : api_log[i].route = "ingest"}

\* C14: POST /ingest is fire-and-forget: its answer is sent with the job it
\* started still pending and the store untouched, it reports
\* documents_processed = 0, and no later step of the job changes an answer
\* already sent; the job runs afterwards.
C14_FireAndForgetStep ==
    /\ \A i \in IngestAnswers : api_log[i].answer.documents_processed = 0
    /\ \A i \in 1..Len(api_log) : api_log'[i] = api_log[i]
    /\ Len(api_log') > Len(api_log) /\ api_log'[Len(api_log')].route = "ingest" =>
          /\ api_log'[Len(api_log')].answer.documents_processed = 0
          /\ api_log'[Len(api_log')].answer.success
          /\ Len(background_tasks') = Len(background_tasks) + 1
          /\ UNCHANGED store_vars

C14_FireAndForget ==
    [][C14_FireAndForgetStep]_vars

\* An ingestion answered with 0 documents whose job has since put chunks
\* into the index, as a later status answer shows.
C14_Witness ==
    \E i \in IngestAnswers :
        /\ api_log[i].answer.documents_processed = 0
        /\ api_log[i].pending > 0
        /\ background_tasks = <<>>
        /\ store_call.op = "run_ingestion" /\ store_call.returned > 0
        /\ \E j \in (i + 1)..Len(api_log) :
              /\ api_log[j].route = "status"
              /\ api_log[j].answer.status.document_count > 0

\* C16: in a directory run of the ingestion command line with --clear, the
\* index is neither cleared nor written before the prompt is answered, and
\* an answer other than y (after strip and lower) ends the run with exit
\* code 0 and the index, in memory and on disk, as it was.
C16_NoMutationUnlessYesStep ==
    /\ (cli'.pc = "prompt" /\ cli.pc # "prompt") =>
          /\ disk_index' = disk_index
          /\ memory_index' \in {<<>>, disk_index.pkl}
    /\ (cli.pc = "prompt" /\ cli'.pc = "exited"
           /\ Lower(Strip(cli'.answer)) # <<"y">>) =>
          /\ disk_index' = disk_index
          /\ memory_index' = memory_index
          /\ cli'.exit_code = 0
    /\ (cli'.pc = "exited" /\ cli'.mode = "directory" /\ cli'.clear
           /\ disk_index' # disk_index) =>
          /\ cli.pc = "prompt"
          /\ Lower(Strip(cli'.answer)) = <<"y">>

OlderRows ==
    {row \in retention.rows :
        row.updated_at < Midnight(retention.today) - 2 * retention.days}

\* C15: on every date, clear_old_sessions(days) deletes the rows updated
\* strictly before today's midnight minus `days` days and no other row, and
\* returns their number.
C15_DeletesOlderRows ==
    retention.result # <<>> =>
        /\ retention.result[1].rows = retention.rows \ OlderRows
        /\ retention.result[1].returned = Cardinality(OlderRows)

\* The query of the call as the tiers see it.
IntentQueryLower ==
    Strip(Lower(intent_call.query))

MatchesPureWeather ==
    AnyPattern(pure_weather_patterns, IntentQueryLower)

HasAgricultureKeyword ==
    AnyWord(agriculture_keywords, IntentQueryLower)

MatchesWeatherAgriculture ==
    AnyPattern(weather_agriculture_patterns, IntentQueryLower)

IntentResultIs(intent, confidence) ==
    /\ intent_call.result[1].intent = intent
    /\ intent_call.result[1].confidence = confidence

\* C17 as stated: a query matching a pure-weather pattern and holding no
\* agriculture keyword is weather_query at 0.9, and every query matching a
\* weather+agriculture pattern is weather_agriculture at 0.9, whatever the
\* pure-weather tier and the agriculture tier make of it.
C17_WeatherAgricultureOutranks ==
    intent_call.result # <<>> =>
        /\ (MatchesPureWeather /\ ~HasAgricultureKeyword) =>
              IntentResultIs("weather_query", 90)
        /\ MatchesWeatherAgriculture => IntentResultIs("weather_agriculture", 90)

\* C17, amended: the pure-weather tier comes first and wins for a query
\* without agriculture keyword; a query matching a weather+agriculture
\* pattern is weather_agriculture at 0.9 unless the pure-weather tier took
\* it, and always before the agriculture tier.
C17_TierPrecedence ==
    intent_call.result # <<>> =>
        /\ (MatchesPureWeather /\ ~HasAgricultureKeyword) =>
              IntentResultIs("weather_query", 90)
        /\ (MatchesWeatherAgriculture /\ ~(MatchesPureWeather /\ ~HasAgricultureKeyword)) =>
              IntentResultIs("weather_agriculture", 90)

\* A query that matches a pure-weather pattern, a weather+agriculture
\* pattern and an agriculture pattern, holds an agriculture keyword and was
\* classified weather_agriculture.
C17_Witness ==
    /\ intent_call.result # <<>>
    /\ MatchesPureWeather /\ HasAgricultureKeyword /\ MatchesWeatherAgriculture
    /\ PatternCount(agriculture_patterns, IntentQueryLower) >= 1
    /\ IntentResultIs("weather_agriculture", 90)

\* A wind direction call that has returned.
WindAnswered ==
    advisor_call.op = "_get_wind_direction_text" /\ advisor_call.result # <<>>

\* C18 as stated: 0, 11.24, 11.26 and 360 degrees give compass index 0,
\* 180 degrees gives index 8, and the index is the same one turn later.
C18_WindIndexAsStated ==
    WindAnswered =>
        /\ advisor_call.degrees \in {0, 1124, 1126, 36000} =>
              advisor_call.result[1].index = 0
        /\ advisor_call.degrees = 18000 => advisor_call.result[1].index = 8
        /\ advisor_call.result[1].index \in 0..15
        /\ wind_direction_index(advisor_call.degrees + 36000) = advisor_call.result[1].index

\* C18, amended: 0, 11.24 and 360 degrees give compass index 0, 11.26
\* degrees gives index 1 (a sector starts 11.25 degrees before its
\* direction), 180 degrees gives index 8, everything from 348.75 to 360
\* degrees gives index 0 again, and the index is the same one turn later.
C18_WindIndex ==
    WindAnswered =>
        /\ advisor_call.degrees \in {0, 1124, 36000} => advisor_call.result[1].index = 0
        /\ advisor_call.degrees = 1126 => advisor_call.result[1].index = 1
        /\ advisor_call.degrees = 18000 => advisor_call.result[1].index = 8
        /\ advisor_call.degrees \in 34875..36000 => advisor_call.result[1].index = 0
        /\ advisor_call.result[1].index \in 0..15
        /\ advisor_call.result[1].text = directions[advisor_call.result[1].index + 1]
        /\ wind_direction_index(advisor_call.degrees + 36000) = advisor_call.result[1].index

\* The call for 11.26 degrees has answered with the second direction.
C18_Witness ==
    /\ WindAnswered
    /\ advisor_call.degrees = 1126
    /\ advisor_call.result[1].text = "Bac Dong Bac"

\* A crop analysis that has returned, and the limits it was made with.
CropAnswered ==
    advisor_call.op = "analyze_weather_for_crop" /\ advisor_call.result # <<>>

CropLimits ==
    thresholds[advisor_call.result[1].crop]

TemperaturePenalty ==
    IF advisor_call.weather.temperature < CropLimits.temp_min THEN 30
    ELSE IF advisor_call.weather.temperature > CropLimits.temp_max THEN 25 ELSE 0

HumidityPenalty ==
    IF advisor_call.weather.humidity < CropLimits.humidity_min THEN 15
    ELSE IF advisor_call.weather.humidity > CropLimits.humidity_max THEN 10 ELSE 0

RainfallPenalty ==
    IF \/ ("rainfall_min" \in DOMAIN CropLimits
            /\ advisor_call.weather.rainfall < CropLimits.rainfall_min)
       \/ advisor_call.weather.rainfall > CropLimits.rainfall_max
    THEN 20 ELSE 0

WindPenalty ==
    IF advisor_call.weather.wind_speed > CropLimits.wind_max THEN 15 ELSE 0

IsCoffeeReading(temperature) ==
    /\ advisor_call.crop_type = CROP_COFFEE
    /\ advisor_call.weather = [temperature |-> temperature, humidity |-> 70,
                               rainfall |-> 50, wind_speed |-> 10]

\* C19: the score is 100 less 30 or 25 for the temperature, 15 or 10 for
\* the humidity, 20 for the rainfall and 15 for the wind, never below 0;
\* the crop is unsuitable exactly when the temperature is out of its band;
\* the issue list is empty exactly when nothing is out of its band; coffee
\* at 35 degrees, 70 percent, 50 mm and 10 km/h scores 75 and is unsuitable,
\* and at 22 degrees scores 100, is suitable and has no issue.
C19_CropScore ==
    CropAnswered =>
        LET analysis == advisor_call.result[1]
            penalties == TemperaturePenalty + HumidityPenalty + RainfallPenalty + WindPenalty
        IN  /\ analysis.score = (IF penalties < 100 THEN 100 - penalties ELSE 0)
            /\ analysis.score >= 0
            /\ analysis.suitable = (TemperaturePenalty = 0)
            /\ (analysis.issues = <<>>) = (penalties = 0)
            /\ IsCoffeeReading(35) => analysis.score = 75 /\ ~analysis.suitable
            /\ IsCoffeeReading(22) =>
                  analysis.score = 100 /\ analysis.suitable /\ analysis.issues = <<>>

\* The analysis of coffee at 35 degrees has returned 75 and unsuitable.
C19_Witness ==
    /\ CropAnswered
    /\ IsCoffeeReading(35)
    /\ advisor_call.result[1].score = 75
    /\ ~advisor_call.result[1].suitable
    /\ advisor_call.result[1].issues = <<"temperature_high">>

\* What a document has of the crops of a query: a keyword in its filename,
\* or a keyword or a related term in its body.
FilenameMatch(document, crops) ==
    \E n \in DOMAIN crops :
        \E k \in DOMAIN crop_entities[crops[n]].keywords :
            Contains(normalize_text(document.filename),
                     normalize_text(crop_entities[crops[n]].keywords[k]))

BodyMatch(document, crops) ==
    \E n \in DOMAIN crops :
        \/ \E k \in DOMAIN crop_entities[crops[n]].keywords :
              Contains(normalize_text(document.page_content),
                       normalize_text(crop_entities[crops[n]].keywords[k]))
        \/ \E k \in DOMAIN crop_entities[crops[n]].related_terms :
              Contains(normalize_text(document.page_content),
                       normalize_text(crop_entities[crops[n]].related_terms[k]))

\* The places of the result where a document of the call stands.
PlacesOf(document) ==
    {p \in DOMAIN filter_call.result[1] :
        /\ filter_call.result[1][p][1].filename = document.filename
        /\ filter_call.result[1][p][1].page_content = document.page_content}

FilterDocumentsOfCall ==
    {filter_call.documents[i] : i \in DOMAIN filter_call.documents}

\* The documents of the call with a keyword in the filename, and those
\* with a match in the body only.
NamedDocuments(crops) ==
    {document \in FilterDocumentsOfCall : FilenameMatch(document, crops)}

BodyDocuments(crops) ==
    {document \in FilterDocumentsOfCall :
        ~FilenameMatch(document, crops) /\ BodyMatch(document, crops)}

SortedByRelevance ==
    \A p \in DOMAIN filter_call.result[1], q \in DOMAIN filter_call.result[1] :
        p < q => filter_call.result[1][p][2] >= filter_call.result[1][q][2]

\* The documents without any match are left out, and only those.
OnlyMatchesKept(named, bodies) ==
    \A document \in FilterDocumentsOfCall :
        (PlacesOf(document) = {}) = (document \notin named \cup bodies)

\* Every body match scores strictly less than every filename match and
\* stands after it.
BodyBelowFilename(named, bodies) ==
    \A document \in named, body \in bodies :
        \A p \in PlacesOf(document), q \in PlacesOf(body) :
            /\ filter_call.result[1][q][2] < filter_call.result[1][p][2]
            /\ p < q

\* A filename match scores at least 0.8, a body match between 0.12 and
\* 1.0; the higher score stands first, and of two equal scores the
\* document given first.
BodyAgainstFilename(named, bodies) ==
    \A document \in named, body \in bodies :
        \A p \in PlacesOf(document), q \in PlacesOf(body) :
            /\ filter_call.result[1][p][2] >= 80
            /\ filter_call.result[1][q][2] \in 12..100
            /\ filter_call.result[1][q][2] < filter_call.result[1][p][2] => p < q
            /\ (filter_call.result[1][q][2] = filter_call.result[1][p][2]) =>
                  (p < q) = (\E i \in DOMAIN filter_call.documents,
                                j \in DOMAIN filter_call.documents :
                                  /\ i < j
                                  /\ filter_call.documents[i] = document
                                  /\ filter_call.documents[j] = body)

FilenameFirstFor(crops) ==
    Len(crops) = 1 =>
        /\ SortedByRelevance
        /\ OnlyMatchesKept(NamedDocuments(crops), BodyDocuments(crops))
        /\ BodyBelowFilename(NamedDocuments(crops), BodyDocuments(crops))

SortedFor(crops) ==
    Len(crops) = 1 =>
        /\ SortedByRelevance
        /\ OnlyMatchesKept(NamedDocuments(crops), BodyDocuments(crops))
        /\ BodyAgainstFilename(NamedDocuments(crops), BodyDocuments(crops))

\* C20 as stated: for a query naming a crop, the result is sorted by
\* descending relevance, the documents without match are left out, and each
\* document matching only in its body is kept, with a score strictly lower
\* than, and a place after, each document matching in its filename.
C20_FilenameMatchFirst ==
    filter_call.result # <<>> => FilenameFirstFor(extract_crop_entities(filter_call.query))

\* C20, amended: for a query naming a crop, the result is sorted by
\* descending relevance, ties in the order given; the documents without
\* match are left out; a document matching in its filename scores at least
\* 0.8; a document matching only in its body is kept with a score between
\* 0.12 and the cap 1.0, and stands after every filename match that scores
\* more than it.
C20_SortedByRelevance ==
    filter_call.result # <<>> => SortedFor(extract_crop_entities(filter_call.query))

WitnessFor(crops) ==
    /\ Len(crops) = 1
    /\ Len(filter_call.result[1]) = 2
    /\ FilenameMatch(filter_call.result[1][1][1], crops)
    /\ ~FilenameMatch(filter_call.result[1][2][1], crops)
    /\ filter_call.result[1][2][2] < filter_call.result[1][1][2]
    /\ FilenameMatch(filter_call.documents[3], crops)
    /\ \E document \in FilterDocumentsOfCall : PlacesOf(document) = {}

\* A call that put a filename match first though it was given last, kept a
\* body match with a lower score after it, and left out a document without
\* match.
C20_Witness ==
    filter_call.result # <<>> /\ WitnessFor(extract_crop_entities(filter_call.query))

\* The elements of a sequence.
Range(sequence) ==
    {sequence[i] : i \in DOMAIN sequence}

\* The first batch of an add_documents call that raised the token-length
\* error, 0 when none did.
FirstTokenError(outcomes) ==
    IF \E batch_num \in DOMAIN outcomes : outcomes[batch_num] = "token_error"
    THEN CHOOSE batch_num \in DOMAIN outcomes :
            /\ outcomes[batch_num] = "token_error"
            /\ \A earlier \in 1..(batch_num - 1) : outcomes[earlier] # "token_error"
    ELSE 0

\* The chunks a store constructed over the files would load.
ChunksOf(files) ==
    LET index == create_or_load_vector_store(files, TRUE)
    IN  IF index = <<>> THEN {} ELSE Range(index[1])

\* The batches added and saved before the first token-length error are
\* among the chunks.
EarlierBatchesIn(valid, outcomes, chunks) ==
    \A batch_num \in 1..(FirstTokenError(outcomes) - 1) :
        outcomes[batch_num] = "ok" =>
            Range(batch_of(valid, batch_num)) \subseteq chunks

C21_DemotionKeepsEarlierStep ==
    (/\ store_calls' = store_calls + 1
     /\ store_call'.op = "add_documents"
     /\ use_vietnamese_model
     /\ ~use_vietnamese_model') =>
        EarlierBatchesIn(valid_docs(InputDocuments(store_call'.shape, store_calls')),
                         store_call'.outcomes, ChunksOf(disk_index'))

\* C21: when a batch of add_documents fails with the token-length error
\* under the Vietnamese model and the store demotes itself, the batches
\* added and saved before it are in the persisted index when the call
\* returns, also when later batches succeed under the new model.
C21_DemotionKeepsEarlier ==
    [][C21_DemotionKeepsEarlierStep]_vars

\* A step of ingest_from_directory on a directory that gave no chunk.
ZeroChunksStep ==
    /\ store_calls' = store_calls + 1
    /\ store_call'.op = "ingest_from_directory"
    /\ store_call'.path = "directory"
    /\ store_call'.shape.count = 0

C22_ZeroChunksUntouchedStep ==
    ZeroChunksStep =>
        /\ store_call'.returned = 0
        /\ disk_index' = disk_index
        /\ memory_index' = memory_index

\* C22 as stated: directory ingestion that produces zero chunks returns 0
\* and leaves the persisted index and the in-memory index as they were, for
\* either value of clear_existing.
C22_ZeroChunksUntouched ==
    [][C22_ZeroChunksUntouchedStep]_vars

C22_ZeroChunksNothingAddedStep ==
    ZeroChunksStep =>
        /\ store_call'.returned = 0
        /\ store_call'.raised = NoneVal
        /\ use_vietnamese_model' = use_vietnamese_model
        /\ ~store_call'.clear_existing =>
              /\ disk_index' = disk_index
              /\ memory_index' = memory_index
        /\ store_call'.clear_existing =>
              /\ disk_index' = [disk_index EXCEPT !.pkl = <<>>]
              /\ memory_index' = <<>>

\* C22, amended: directory ingestion that produces zero chunks returns 0
\* and adds nothing.  Without clear_existing the persisted index and the
\* in-memory index are as they were; with clear_existing the store is left
\* as clear_collection leaves it, faiss_index.pkl removed and the in-memory
\* index dropped.
C22_ZeroChunksNothingAdded ==
    [][C22_ZeroChunksNothingAddedStep]_vars

\* An empty directory ingested with clear_existing over a saved index: the
\* call returned 0 and the index is gone from memory and from
\* faiss_index.pkl.
C22_Witness ==
    /\ store_call.op = "ingest_from_directory"
    /\ store_call.path = "directory"
    /\ store_call.shape.count = 0
    /\ store_call.clear_existing
    /\ store_call.returned = 0
    /\ disk_index.faiss # <<>>
    /\ disk_index.pkl = <<>>
    /\ memory_index = <<>>

\* The call ran the two tiers: the query is valid and nothing raised.
TiersRan ==
    /\ analyze_call.result # <<>>
    /\ validate_query(analyze_call.user_query).is_valid
    /\ analyze_call.exc_site = "none"

\* C23: analyze_intent runs the LLM classification only when the pattern
\* classification's confidence is below 0.5, returns whichever of the two
\* results has the higher confidence, and returns the pattern result when
\* the LLM call fails or is not run.
C23_LlmOnlyBelowMedium ==
    analyze_call.result # <<>> =>
        /\ analyze_call.result[1].llm_calls > 0 =>
              analyze_call.pattern_result.confidence < 50
        /\ TiersRan =>
              /\ analyze_call.result[1].llm_calls > 0 <=>
                    analyze_call.pattern_result.confidence < 50
              /\ (analyze_call.result[1].llm_calls > 0
                    /\ analyze_call.response.kind = "answer") =>
                    /\ analyze_call.result[1].returned.confidence >=
                          analyze_call.response.confidence
                    /\ analyze_call.result[1].returned.confidence >=
                          analyze_call.pattern_result.confidence
                    /\ analyze_call.result[1].returned \in
                          {analyze_call.pattern_result,
                           create_intent_result(analyze_call.response.intent,
                                                analyze_call.response.confidence, <<>>)}
              /\ (analyze_call.result[1].llm_calls = 0
                    \/ analyze_call.response.kind # "answer") =>
                    analyze_call.result[1].returned = analyze_call.pattern_result

\* A call whose pattern result was 0.3, whose LLM answered with 0.9, and
\* that returned the LLM's result.
C23_Witness ==
    /\ TiersRan
    /\ analyze_call.pattern_result.confidence = 30
    /\ analyze_call.response.kind = "answer"
    /\ analyze_call.response.confidence = 90
    /\ analyze_call.result[1].llm_calls = 1
    /\ analyze_call.result[1].returned.intent = analyze_call.response.intent
    /\ analyze_call.result[1].returned.confidence = 90

\* C24: the confidence of every result analyze_intent returns, and so the
\* confidence stored in every pipeline state, is a number within [0,1],
\* whichever tier (validation failure, pattern, LLM) produced it.
C24_ConfidenceInRange ==
    Get(state, "confidence", 0) \in 0..100

\* The location a weather handler settles on for the state of the call.
HandlerLocation(is_followup) ==
    IF is_followup /\ weather_call.state.last_location # NoneVal
    THEN weather_call.state.last_location
    ELSE weather_call.env.location

\* The turn is a follow-up and the cache holds an entry for the handler's
\* location that is less than 1800 seconds old.
FreshCache(is_followup) ==
    /\ is_followup
    /\ weather_call.state.last_weather_data # <<>>
    /\ weather_call.state.last_weather_data[1].location = HandlerLocation(is_followup)
    /\ weather_call.now - weather_call.state.last_weather_data[1].timestamp < 1800

\* The state the handler returned holds the reading of the cache.
ReadingReused ==
    /\ "weather" \in DOMAIN weather_call.state.last_weather_data[1]
    /\ weather_call.result[1].state.last_weather_data # <<>>
    /\ weather_call.result[1].state.last_weather_data[1].weather =
          weather_call.state.last_weather_data[1].weather

ReuseExactlyWhenFresh(is_followup) ==
    /\ FreshCache(is_followup) =>
          /\ weather_call.result[1].weather_fetches = 0
          /\ ReadingReused
    /\ ~FreshCache(is_followup) => weather_call.result[1].weather_fetches >= 1

\* C25: a weather handler reuses the cached reading, without a new weather
\* call, exactly when the turn is a follow-up and the cache holds a reading
\* for the same location that is less than 1800 seconds old; in every other
\* case it fetches the weather.
C25_ReuseExactlyWhenFresh ==
    weather_call.result # <<>> =>
        ReuseExactlyWhenFresh(
            is_weather_followup_question(weather_call.state.user_query,
                                         weather_call.state.conversation_history))

(***************************************************************************)
(* C26                                                                     *)
(***************************************************************************)
\* A search has answered since the last ingestion of this process.
SearchedAfterIngestion ==
    /\ "ingestions" \in DOMAIN process
    /\ process.ingestions > 0
    /\ process.result # <<>>

\* C26: within one process the store's in-memory index is shared by chat
\* turns and ingestion: once an ingestion (with or without a clear) has
\* completed, a later search of a chat turn answers from the index as the
\* ingestion left it, without a restart.
C26_SearchSeesIngestion ==
    SearchedAfterIngestion =>
        process.result[1].found = similarity_search(memory_index, process.result[1].k, FALSE)

(***************************************************************************)
(* C27                                                                     *)
(***************************************************************************)
\* The state a call of the state manager was given, if it was given one.
StateGiven ==
    IF state_call.op = "update_state" THEN <<state_call.given>>
    ELSE IF state_call.op = "create_initial_state" THEN state_call.given
    ELSE <<>>

StateCallDone ==
    /\ "op" \in DOMAIN state_call
    /\ state_call.result # <<>>

\* The list the given state holds under key reads the same after the call.
ListKept(key) ==
    state_call.result[1].lists[StateGiven[1][key]] = state_call.lists[StateGiven[1][key]]

\* C27: create_initial_state and update_state return a new state and never
\* mutate the state they were given: after either call the execution_path,
\* the errors and the conversation_history of the given state (current or
\* previous) read as they did before it.
C27_GivenStateUnchanged ==
    (StateCallDone /\ StateGiven # <<>>) =>
        /\ ListKept("execution_path")
        /\ ListKept("errors")
        /\ ListKept("conversation_history")

AdviceAnswered ==
    /\ advisor_call.op = "generate_agriculture_advice"
    /\ advisor_call.result # <<>>

\* C28 as stated: the confidence of the advice generate_agriculture_advice
\* returns is the suitability score analyze_weather_for_crop computes for
\* the normalized crop on the current conditions, divided by 100.
C28_ConfidenceIsScore ==
    AdviceAnswered =>
        advisor_call.result[1].confidence =
            analyze_weather_for_crop(advisor_call.weather,
                                     normalized_crop(advisor_call.crop_type)).score

\* What the advice takes off for the reading of the call.
AdviceDeductions ==
    (IF advisor_call.weather.temperature \notin 10..35 THEN 20 ELSE 0)
    + (IF advisor_call.weather.humidity \notin 20..90 THEN 10 ELSE 0)
    + (IF advisor_call.weather.wind_speed > 30 THEN 10 ELSE 0)

\* C28, amended: the confidence of the advice generate_agriculture_advice
\* returns is 0.8, less 0.2 for a temperature above 35 or below 10, less 0.1
\* for a humidity above 90 or below 20, less 0.1 for a wind above 30; the
\* crop has no part in it.
C28_ConfidenceOfReading ==
    AdviceAnswered =>
        /\ advisor_call.result[1].confidence = 80 - AdviceDeductions
        /\ advisor_call.result[1].confidence \in 40..80

\* Advice on a hot, damp and windy reading: confidence 0.4, where the
\* suitability score of the crop is another number.
C28_Witness ==
    /\ AdviceAnswered
    /\ advisor_call.weather.temperature = 36
    /\ advisor_call.weather.humidity = 95
    /\ advisor_call.weather.wind_speed = 31
    /\ advisor_call.result[1].confidence = 40
    /\ analyze_weather_for_crop(advisor_call.weather,
                                normalized_crop(advisor_call.crop_type)).score # 40

(***************************************************************************)
(* C29                                                                     *)
(***************************************************************************)
\* The last thing the UI did was to send the first prompt after New Chat
\* had left a session.
PromptAfterNewChat ==
    /\ ui.result # <<>>
    /\ ui.result[1].op = "prompt"
    /\ ui.result[1].after_new_chat # <<>>

\* C29: after the UI's New Chat the session that was active is left as it
\* was: the next prompt sent from the UI is recorded in another session,
\* and no message is appended to the session New Chat left.
C29_NewChatLeavesSession ==
    PromptAfterNewChat =>
        LET left == ui.result[1].after_new_chat[1]
        IN  /\ ui.result[1].recorded # left.session_id
            /\ RowOf(database, left.session_id) = left.row

(***************************************************************************)
(* C30                                                                     *)
(***************************************************************************)
\* The sessions a delete_session has returned true for and no later call
\* has named.
HeldDeleted ==
    IF "deleted" \in DOMAIN builders THEN builders.deleted ELSE {}

StaysDeleted(database_now, id) ==
    /\ load_session(database_now, id, TRUE) = <<>>
    /\ \A listed \in list_sessions(database_now, 20) : id \notin listed

LastDelete ==
    IF builders.result # <<>> /\ builders.result[1].op = "delete_session"
       /\ builders.result[1].returned
    THEN builders.result ELSE <<>>

\* C30: once delete_session(id) has returned true the session stays
\* deleted: load_session(id) finds nothing and list_sessions omits it after
\* any later turns, by this or any other builder on the same database, that
\* do not name the id; and the deleting builder's current-session pointer
\* is cleared exactly when it pointed to the deleted id.
C30_DeletedStaysDeleted ==
    /\ \A id \in HeldDeleted : StaysDeleted(database, id)
    /\ LastDelete # <<>> => (LastDelete[1].cleared <=> LastDelete[1].pointed)

====
